---- MODULE Spec2Model ----
(***************************************************************************)
(* A model of asciimatics/screen.py: the double-buffered Screen            *)
(* (_BufferedScreen), its three backends (_WindowsScreen, _CursesScreen,   *)
(* _BlessedScreen), the drawing surface of Screen (move/draw) and the      *)
(* resize notification path.                                               *)
(*                                                                         *)
(* Python values are modelled as follows.  A cell is the 4-tuple           *)
(* <<char, colour, attr, bg>>; a text is a sequence of one-character       *)
(* strings; None is the empty tuple and a present value v is <<v>>, so     *)
(* that "x != self._x" is <<x>> # _x whether or not _x is None.  An        *)
(* exception that leaves a method is recorded in `raised`.                 *)
(***************************************************************************)
EXTENDS Integers, Sequences, FiniteSets, TLC

\* ------------------------------------------------------------ sizes -----

\* Screen.width and Screen.height: the size of the terminal the screen is
\* constructed on.
Width == 3

Height == 2

\* ------------------------------------------------------------ bounds ----

\* Rows of the buffer below the first screenful: buffer_height - height.
ExtraRows == 1

\* Public calls made on the screen in one behaviour.
MaxOps == 3

\* Sub-cell coordinates the line-drawing loop may reach before it is cut off.
MaxCoord == 8

\* How far to the left of the screen a clipped text starts.
MaxShift == 6

\* How many print_at calls a run about clipping makes.
MaxPrints == 2

\* Resize occurrences in one behaviour.
MaxResizes == 2

\* has_resized()/get_event() polls in one behaviour.
MaxPolls == 3

\* The ticks play() is followed for, and the input records that arrive.
MaxTicks == 4

MaxInputs == 2

\* The colour depths a terminal reports.
MaxColours == 300

\* ------------------------------------------------- program constants ----

A_BOLD == 1

A_NORMAL == 2

A_REVERSE == 3

A_UNDERLINE == 4

COLOUR_BLACK == 0

COLOUR_GREEN == 2

COLOUR_BLUE == 4

COLOUR_WHITE == 7

\* _BufferedScreen._buffer_height: the constructor's buffer_height argument.
BufferHeight == Height + ExtraRows

None == <<>>

Some(v) == <<v>>

Backends == {"windows", "curses", "blessed"}

\* The blank cell _reset() fills both buffers with.
BlankCell == <<" ", COLOUR_WHITE, 0, 0>>

BlankBuffer == [y \in 0..(BufferHeight - 1) |-> [x \in 0..(Width - 1) |-> BlankCell]]

\* ord() of the characters the model draws with.
Ord(c) ==
    CASE c = " " -> 32
      [] c = "#" -> 35
      [] c = "'" -> 39
      [] c = "." -> 46
      [] c = "/" -> 47
      [] c = "7" -> 55
      [] c = "B" -> 66
      [] c = "Y" -> 89
      [] c = "\\" -> 92
      [] c = "^" -> 94
      [] c = "b" -> 98
      [] c = "d" -> 100
      [] c = "w" -> 119
      [] c = "|" -> 124

\* ----------------------------------------------------------- inputs -----

\* The text handed to print_at: a space and a letter, long enough to be
\* clipped on either side of the buffer.
Texts == {<<" ", "B">>}

\* The (colour, attr, bg) triples handed to print_at: the defaults and a
\* triple that differs from them in every component.
DefaultStyle == <<COLOUR_WHITE, 0, 0>>

OtherStyle == <<COLOUR_GREEN, A_BOLD, COLOUR_BLUE>>

\* How print_at is called: opaque in the default colours, or transparent
\* in the other ones.
Modes == {[style |-> DefaultStyle, transparent |-> FALSE],
          [style |-> OtherStyle, transparent |-> TRUE]}

XCoords == (-1)..(Width + 1)

YCoords == (-1)..BufferHeight

\* The arguments of the print_at calls that look at clipping alone: a text
\* longer than the screen is wide, starting up to MaxShift columns to the
\* left of the screen, and the rows just outside and just inside the buffer.
WideTexts == {<<"Y", " ", "b", "w", "7">>}

WideXs == (-MaxShift)..(Width + 2)

WideYs == {-1, 0, BufferHeight - 1, BufferHeight}

\* The logical coordinates handed to move and draw, in tenths of a cell
\* (10 is column or row 1).
MoveXs == {0, 10}

MoveYs == {0, 10}

DrawXs == {0, 20, 30}

DrawYs == {0, 10, 20}

\* Coordinates with a fractional part, in tenths: 0.4, 2.7 and two whole
\* numbers.
TenthCoords == {0, 4, 10, 27}

\* What paint is handed: its texts, and its colour maps, one entry for each
\* character, an entry being a tuple of up to three components of which
\* any may be None.  One map is absent, one is shorter than the texts.
PaintTexts == {<<"Y", "B", "7">>, <<"Y", " ", "7">>}

ColourMaps ==
    { None,
      Some(<< <<Some(COLOUR_GREEN), None, None>>, <<>>, <<>> >>),
      Some(<< <<>>, <<None, Some(A_BOLD)>>, <<Some(COLOUR_BLUE), None, Some(COLOUR_GREEN)>> >>),
      Some(<< <<Some(COLOUR_GREEN), Some(A_BOLD), Some(COLOUR_BLUE)>>, <<Some(COLOUR_BLUE)>>,
              <<None, None, Some(COLOUR_BLACK)>> >>),
      Some(<< <<None, Some(A_REVERSE)>>, <<Some(COLOUR_BLUE), Some(A_NORMAL)>> >>) }

\* How draw is called: anti-aliased (thick or thin), erasing, or with an
\* explicit character.
Pens == {[char |-> None, thin |-> FALSE], [char |-> None, thin |-> TRUE],
         [char |-> Some(" "), thin |-> FALSE], [char |-> Some("#"), thin |-> FALSE]}

\* ------------------------------------------------------------ state -----

VARIABLES
    backend,            \* which concrete Screen class is running
    _start_line,        \* Screen._start_line
    _last_start_line,   \* _BufferedScreen._last_start_line
    _screen_buffer,     \* committed cells (what has been sent to the device)
    _double_buffer,     \* pending cells (what drawing calls write to)
    _x, _y,             \* Screen._x/_y: the drawing cursor AND the backends' cursor cache
    _colour, _attr, _bg,\* the backends' cached colour state
    terminal,           \* the device: the characters it shows and its cursor
    io,                 \* backend calls issued by the most recent public call
    raised,             \* exception that left the most recent public call
    last_call,          \* the most recent public call and its arguments
    before_refresh,     \* while refresh() is the latest call: the call before it
    scroll_calls,       \* scroll() calls since the last refresh()
    cleared,            \* whether clear() was called since the last refresh()
    pc,                 \* "idle", or "draw" while draw() is in its stepping loop
    frame,              \* the local variables of the running draw()
    ops,                \* public calls made so far
    _re_sized,          \* the resize flag of the signal-driven backends
    window_size,        \* <<width, height>> of the console window (Windows)
    _last_width,        \* _WindowsScreen._last_width
    _last_height,       \* _WindowsScreen._last_height
    keys,               \* key codes waiting in the curses/blessed input queue
    hr,                 \* has_resized() between its read and its clear: its local re_sized
    last_result,        \* what the latest completed has_resized() returned
    last_event,         \* what the latest get_event() returned or raised
    tty_calls,          \* terminal-library calls made from inside a signal handler
    resizes,            \* resize occurrences so far
    reported,           \* has_resized() calls that returned True so far
    resized_since_poll, \* a resize occurred since the latest has_resized() started
    owed,               \* the running/latest has_resized() started after such a resize
    polls               \* has_resized()/get_event() calls so far

bufvars == <<backend, _start_line, _last_start_line, _screen_buffer, _double_buffer,
             _x, _y, _colour, _attr, _bg, terminal, io, raised, last_call,
             before_refresh, scroll_calls, cleared, pc, frame, ops>>

resizevars == <<_re_sized, window_size, _last_width, _last_height, keys, hr,
                last_result, last_event, tty_calls, resizes, reported,
                resized_since_poll, owed, polls>>

\* play(): its arguments, the scenes' effect lists and the effects' delete
\* counts (both change as effects are removed), the input records waiting in
\* the backend, the loop's position and local variables.  The rest records
\* what has happened: the call made last, the ticks so far, what the
\* current tick started from and has updated, and what the current run of
\* the scene started from and has done.
VARIABLES scenes, stop_on_resize, effects, delete_count, inputq, inputs,
          ppc, scene_ix, tick_frame, iter_ix, re_sized, skipped, event,
          last_step, ticks, tick_effects, updated, queued, quit_polled,
          skip_polled, run

\* The colour depth the backend found, and what the palette property gave.
VARIABLES colours, palette_read

playvars == <<scenes, stop_on_resize, effects, delete_count, inputq, inputs,
              ppc, scene_ix, tick_frame, iter_ix, re_sized, skipped, event,
              last_step, ticks, tick_effects, updated, queued, quit_polled,
              skip_polled, run>>

palettevars == <<colours, palette_read>>

\* What the device renders the next character with: the foreground, the
\* attribute and the background it was last told, "default" for a colour
\* it was told nothing about since it was reset.
VARIABLES rendition

devicevars == <<rendition>>

vars == <<bufvars, resizevars, playvars, palettevars, devicevars>>

\* ------------------------------------------------- Python helpers -------

Min(a, b) == IF a < b THEN a ELSE b

Max(a, b) == IF a > b THEN a ELSE b

\* text[n:] for n >= 0.
SliceFrom(text, n) == SubSeq(text, Min(n, Len(text)) + 1, Len(text))

\* text[:n]; a negative n counts from the end of the text.
SliceTo(text, n) ==
    IF n >= 0 THEN SubSeq(text, 1, Min(n, Len(text)))
    ELSE SubSeq(text, 1, Max(Len(text) + n, 0))

\* --------------------------------------------------- the device ---------

\* The device after construction: a blank screen with the cursor at home.
BlankTerminal ==
    [chars |-> [r \in 0..(Height - 1) |-> [c \in 0..(Width - 1) |-> " "]],
     cx |-> 0, cy |-> 0]

\* The device scrolls its content up one line; the bottom line becomes blank.
TermScrollUp(t) ==
    [t EXCEPT !.chars = [r \in 0..(Height - 1) |->
        IF r < Height - 1 THEN t.chars[r + 1] ELSE [c \in 0..(Width - 1) |-> " "]]]

\* An explicit cursor-move call.
TermMove(t, x, y) == [t EXCEPT !.cx = x, !.cy = y]

\* One character written at the device's own cursor.  The Windows console
\* runs with wrap-at-end-of-line switched off (wrapper()), so its cursor
\* stays in the last column; a terminal wraps to the next line, scrolling
\* when it is on the last one.
TermPut(b, t, c) ==
    IF b = "windows" THEN
        LET col == Min(t.cx, Width - 1)
        IN  [t EXCEPT !.chars[t.cy][col] = c, !.cx = Min(col + 1, Width - 1)]
    ELSE IF t.cx < Width THEN
        [t EXCEPT !.chars[t.cy][t.cx] = c, !.cx = t.cx + 1]
    ELSE
        LET t1 == IF t.cy = Height - 1 THEN TermScrollUp(t)
                  ELSE [t EXCEPT !.cy = t.cy + 1]
        IN  [t1 EXCEPT !.chars[t1.cy][0] = c, !.cx = 1]

RECURSIVE TermWrite(_, _, _)
TermWrite(b, t, text) ==
    IF text = <<>> THEN t
    ELSE TermWrite(b, TermPut(b, t, Head(text)), Tail(text))

\* The device as it starts and as a reset leaves it.
DefaultRendition == [fg |-> "default", attr |-> 0, bg |-> "default"]

\* What one call of the backend does to the way the device renders: the
\* console call sets all three at once; among the terminal sequences,
\* "normal" switches every attribute off and puts both colours back to the
\* terminal's defaults, and the others set the one thing they name.
ApplyDevice(r, call) ==
    CASE call.op = "state" -> [fg |-> call.colour, attr |-> call.attr, bg |-> call.bg]
      [] call.op = "normal" -> DefaultRendition
      [] call.op = "attr" -> [r EXCEPT !.attr = call.attr]
      [] call.op = "fg" -> [r EXCEPT !.fg = call.colour]
      [] call.op = "bg" -> [r EXCEPT !.bg = call.bg]
      [] OTHER -> r

\* The device's rendition after the calls of a log.
RECURSIVE DeviceAfter(_, _)
DeviceAfter(r, log) ==
    IF log = <<>> THEN r ELSE DeviceAfter(ApplyDevice(r, Head(log)), Tail(log))

\* ------------------------------------------- backend primitives ---------
\* Each primitive maps the backend state s = [x, y, colour, attr, bg, term,
\* io] (the cached cursor and colours, the device, the calls issued) to the
\* state after the call.

Emit(s, call) == [s EXCEPT !.io = Append(s.io, call)]

\* Windows_change_colours without the comparison with the cached colours.
Windows_change_colours_always(s, colour, attr, bg) ==
    [Emit(s, [op |-> "state", colour |-> colour, attr |-> attr, bg |-> bg])
        EXCEPT !.attr = Some(attr), !.colour = Some(colour), !.bg = Some(bg)]

Windows_change_colours(s, colour, attr, bg) ==
    IF Some(colour) # s.colour \/ Some(attr) # s.attr \/ s.bg # Some(bg) THEN
        [Emit(s, [op |-> "state", colour |-> colour, attr |-> attr, bg |-> bg])
            EXCEPT !.attr = Some(attr), !.colour = Some(colour), !.bg = Some(bg)]
    ELSE s

Curses_change_colours(s, colour, attr, bg) ==
    LET s1 == IF Some(attr) # s.attr THEN
                  LET e1 == Emit(s, [op |-> "normal"])
                      e2 == IF attr # 0 THEN Emit(e1, [op |-> "attr", attr |-> attr])
                            ELSE e1
                  IN  [e2 EXCEPT !.attr = Some(attr), !.colour = None, !.bg = None]
              ELSE s
        s2 == IF Some(colour) # s1.colour THEN
                  [Emit(s1, [op |-> "fg", colour |-> colour]) EXCEPT !.colour = Some(colour)]
              ELSE s1
    IN  IF Some(bg) # s2.bg THEN
            [Emit(s2, [op |-> "bg", bg |-> bg]) EXCEPT !.bg = Some(bg)]
        ELSE s2

Blessed_change_colours(s, colour, attr, bg) ==
    LET s1 == IF Some(attr) # s.attr THEN
                  LET e1 == Emit(Emit(s, [op |-> "normal"]), [op |-> "bg", bg |-> 0])
                      e2 == IF attr # 0 THEN Emit(e1, [op |-> "attr", attr |-> attr])
                            ELSE e1
                  IN  [e2 EXCEPT !.attr = Some(attr), !.colour = None]
              ELSE s
        s2 == IF Some(colour) # s1.colour THEN
                  [Emit(s1, [op |-> "fg", colour |-> colour]) EXCEPT !.colour = Some(colour)]
              ELSE s1
    IN  IF Some(bg) # s2.bg THEN
            [Emit(s2, [op |-> "bg", bg |-> bg]) EXCEPT !.bg = Some(bg)]
        ELSE s2

_change_colours(b, s, colour, attr, bg) ==
    CASE b = "windows" -> Windows_change_colours(s, colour, attr, bg)
      [] b = "curses" -> Curses_change_colours(s, colour, attr, bg)
      [] b = "blessed" -> Blessed_change_colours(s, colour, attr, bg)

\* The cursor-move a backend issues before the text, if (x, y) is not the
\* position it remembers.
MoveIfNeeded(s, x, y) ==
    IF Some(x) # s.x \/ Some(y) # s.y THEN
        [Emit(s, [op |-> "move", x |-> x, y |-> y]) EXCEPT !.term = TermMove(s.term, x, y)]
    ELSE s

\* The text goes out at the device's cursor, wherever that is.
WriteText(b, s, text) ==
    [Emit(s, [op |-> "write", text |-> text]) EXCEPT !.term = TermWrite(b, s.term, text)]

Windows_print_at(s, text, x, y) ==
    [WriteText("windows", MoveIfNeeded(s, x, y), text)
        EXCEPT !.x = Some(x + Len(text)), !.y = Some(y)]

\* The curses backend never records where its emission ended.
Curses_print_at(s, text, x, y) == WriteText("curses", MoveIfNeeded(s, x, y), text)

Blessed_print_at(s, text, x, y) ==
    [WriteText("blessed", MoveIfNeeded(s, x, y), text)
        EXCEPT !.x = Some(x + Len(text)), !.y = Some(y)]

_print_at(b, s, text, x, y) ==
    CASE b = "windows" -> Windows_print_at(s, text, x, y)
      [] b = "curses" -> Curses_print_at(s, text, x, y)
      [] b = "blessed" -> Blessed_print_at(s, text, x, y)

\* Windows scrolls the window's rectangle in place; the terminals move the
\* device cursor to the bottom line and print a newline there.
_scroll(b, s) ==
    IF b = "windows" THEN
        [Emit(s, [op |-> "scroll"]) EXCEPT !.term = TermScrollUp(s.term)]
    ELSE
        [Emit(s, [op |-> "scroll"])
            EXCEPT !.term = TermScrollUp(TermMove(s.term, 0, Height - 1))]

\* Every backend blanks the device and leaves its cursor at home.
_clear(b, s) == [Emit(s, [op |-> "clear"]) EXCEPT !.term = BlankTerminal]

\* ------------------------------------------- _BufferedScreen ------------

\* The loop of print_at over the clipped text, from its i-th character on:
\* each character that is not a transparent space is stored at column
\* x + i - 1 of row y; a column past the row's end is an IndexError, which
\* ends the call with the earlier characters stored.
RECURSIVE StoreChars(_, _, _, _, _, _, _)
StoreChars(buf, text, x, y, style, transparent, i) ==
    IF i > Len(text) THEN [buf |-> buf, raised |-> "none"]
    ELSE IF text[i] # " " \/ ~transparent THEN
        IF x + i - 1 >= Width THEN [buf |-> buf, raised |-> "IndexError"]
        ELSE StoreChars(
                [buf EXCEPT ![y][x + i - 1] = <<text[i], style[1], style[2], style[3]>>],
                text, x, y, style, transparent, i + 1)
    ELSE StoreChars(buf, text, x, y, style, transparent, i + 1)

\* ClipText with one character too many dropped on the left.
ClipTextDropOneMore(text, x) ==
    LET t1 == IF x < 0 THEN SliceFrom(text, 1 - x) ELSE text
        x1 == IF x < 0 THEN 0 ELSE x
    IN  IF x1 + Len(t1) >= Width THEN SliceTo(t1, Width - x1) ELSE t1

\* ClipText with the trim on the left forgotten.
ClipTextKeepLead(text, x) ==
    LET x1 == IF x < 0 THEN 0 ELSE x
    IN  IF x1 + Len(text) >= Width THEN SliceTo(text, Width - x1) ELSE text

\* The text print_at is left with after trimming it to the buffer.
ClipText(text, x) ==
    LET t1 == IF x < 0 THEN SliceFrom(text, -x) ELSE text
        x1 == IF x < 0 THEN 0 ELSE x
    IN  IF x1 + Len(t1) >= Width THEN SliceTo(t1, Width - x1) ELSE t1

\* print_at with the transparent flag ignored.
print_at_opaque(buf, text, x, y, style, transparent) ==
    IF y < 0 \/ y >= BufferHeight THEN [buf |-> buf, raised |-> "none"]
    ELSE StoreChars(buf, ClipText(text, x), IF x < 0 THEN 0 ELSE x, y, style, FALSE, 1)

\* print_at on the pending buffer buf: the buffer after the call and the
\* exception that left it.
print_at(buf, text, x, y, style, transparent) ==
    IF y < 0 \/ y >= BufferHeight THEN [buf |-> buf, raised |-> "none"]
    ELSE StoreChars(buf, ClipText(text, x), IF x < 0 THEN 0 ELSE x, y, style,
                    transparent, 1)

\* get_from(x, y) on the committed buffer.
get_from(buf, x, y) ==
    LET cell == buf[y][x]
    IN  <<Ord(cell[1]), cell[2], cell[3], cell[4]>>

\* ScrollTimes with a single scroll however far the start line moved.
ScrollOnce(b, s, n) ==
    IF n <= 0 THEN s ELSE _scroll(b, s)

\* The physical scrolls refresh() issues first.
RECURSIVE ScrollTimes(_, _, _)
ScrollTimes(b, s, n) ==
    IF n <= 0 THEN s ELSE ScrollTimes(b, _scroll(b, s), n - 1)

\* EmitCell with the copy into the committed buffer forgotten.
EmitCellNoCommit(b, s, new_cell, x, y, row) ==
    _print_at(b, _change_colours(b, s, new_cell[2], new_cell[3], new_cell[4]),
              <<new_cell[1]>>, x, y)

\* EmitCell with the emission issued before the colours are changed.
EmitCellColoursLast(b, s, new_cell, x, y, row) ==
    LET s1 == _print_at(b, s, <<new_cell[1]>>, x, y)
        s2 == _change_colours(b, s1, new_cell[2], new_cell[3], new_cell[4])
    IN  [s2 EXCEPT !.sb[row][x] = new_cell]

\* What refresh() does with one cell that differs: colours, emission, commit.
EmitCell(b, s, new_cell, x, y, row) ==
    LET s1 == _change_colours(b, s, new_cell[2], new_cell[3], new_cell[4])
        s2 == _print_at(b, s1, <<new_cell[1]>>, x, y)
    IN  [s2 EXCEPT !.sb[row][x] = new_cell]

\* DrawDeltas with the comparison forgotten: every viewport cell is emitted.
RECURSIVE DrawDeltasAll(_, _, _, _, _)
DrawDeltasAll(b, s, db, start, k) ==
    IF k >= Height * Width THEN s
    ELSE
        LET y == k \div Width
            x == k % Width
            row == y + start
        IN  IF row >= BufferHeight THEN [s EXCEPT !.raised = "IndexError"]
            ELSE DrawDeltasAll(b, EmitCell(b, s, db[row][x], x, y, row), db, start, k + 1)

\* The delta loop of refresh() from the k-th cell of the viewport on, in
\* row-major order.  A viewport row past the end of the buffer is an
\* IndexError, which ends the call.
RECURSIVE DrawDeltas(_, _, _, _, _)
DrawDeltas(b, s, db, start, k) ==
    IF k >= Height * Width THEN s
    ELSE
        LET y == k \div Width
            x == k % Width
            row == y + start
        IN  IF row >= BufferHeight THEN [s EXCEPT !.raised = "IndexError"]
            ELSE IF s.sb[row][x] # db[row][x]
                 THEN DrawDeltas(b, EmitCell(b, s, db[row][x], x, y, row), db, start, k + 1)
                 ELSE DrawDeltas(b, s, db, start, k + 1)

\* refresh(): the scrolls since the last refresh, then the deltas.
refresh(b, s, db, start, last_start) ==
    DrawDeltas(b, ScrollTimes(b, s, start - last_start), db, start, 0)

\* The backend state a public call starts from: nothing issued yet.
Backend0 ==
    [x |-> _x, y |-> _y, colour |-> _colour, attr |-> _attr, bg |-> _bg,
     term |-> terminal, io |-> <<>>, sb |-> _screen_buffer, raised |-> "none"]

Called(call) ==
    /\ pc = "idle"
    /\ ops < MaxOps
    /\ ops' = ops + 1
    /\ before_refresh' = IF call.op = "refresh" THEN last_call ELSE [op |-> "none"]
    /\ last_call' = call

\* PrintAt storing the text in the committed buffer as well.
PrintAtWriteThrough(text, x, y, style, transparent) ==
    LET r == print_at(_double_buffer, text, x, y, style, transparent)
    IN  /\ Called([op |-> "print_at", text |-> text, x |-> x, y |-> y,
                   style |-> style, transparent |-> transparent])
        /\ _double_buffer' = r.buf
        /\ _screen_buffer' = print_at(_screen_buffer, text, x, y, style, transparent).buf
        /\ raised' = r.raised
        /\ io' = <<>>
        /\ UNCHANGED <<backend, _start_line, _last_start_line, _x, _y,
                       _colour, _attr, _bg, terminal, scroll_calls, cleared, pc, frame>>
        /\ UNCHANGED resizevars
        /\ UNCHANGED <<playvars, palettevars, devicevars>>

PrintAt(text, x, y, style, transparent) ==
    LET r == print_at(_double_buffer, text, x, y, style, transparent)
    IN  /\ Called([op |-> "print_at", text |-> text, x |-> x, y |-> y,
                   style |-> style, transparent |-> transparent])
        /\ _double_buffer' = r.buf
        /\ raised' = r.raised
        /\ io' = <<>>
        /\ UNCHANGED <<backend, _start_line, _last_start_line, _screen_buffer, _x, _y,
                       _colour, _attr, _bg, terminal, scroll_calls, cleared, pc, frame>>
        /\ UNCHANGED resizevars
        /\ UNCHANGED <<playvars, palettevars, devicevars>>

\* putch(): its body calls putch itself with the arguments it was given,
\* so no call reaches print_at and the interpreter ends the descent with a
\* RecursionError; the pending buffer is not touched.
Putch(text, x, y, style, transparent) ==
    /\ Called([op |-> "putch", text |-> text, x |-> x, y |-> y, style |-> style,
               transparent |-> transparent, before |-> _double_buffer])
    /\ raised' = "RecursionError"
    /\ io' = <<>>
    /\ UNCHANGED <<backend, _start_line, _last_start_line, _screen_buffer,
                   _double_buffer, _x, _y, _colour, _attr, _bg, terminal, scroll_calls,
                   cleared, pc, frame>>
    /\ UNCHANGED resizevars
    /\ UNCHANGED <<playvars, palettevars, devicevars>>

\* getch(x, y) on the committed buffer.
getch(buf, x, y) == get_from(buf, x, y)

\* is_visible with the column past the last one left out.
is_visible_inside(x, y) ==
    x >= 0 /\ x < Width /\ y >= _start_line /\ y < _start_line + Height

\* is_visible(x, y)
is_visible(x, y) ==
    x >= 0 /\ x <= Width /\ y >= _start_line /\ y < _start_line + Height

\* PaintChars with every character starting from the defaults again.
RECURSIVE PaintCharsReset(_, _, _, _, _, _, _, _)
PaintCharsReset(buf, text, x, y, style, transparent, colour_map, i) ==
    IF i > Len(text) THEN [buf |-> buf, raised |-> "none"]
    ELSE IF i > Len(colour_map) THEN [buf |-> buf, raised |-> "IndexError"]
    ELSE
        LET entry == colour_map[i]
            Pick(k) == IF Len(entry) >= k /\ entry[k] # None THEN entry[k][1] ELSE style[k]
            r == print_at(buf, <<text[i]>>, x + i - 1, y, <<Pick(1), Pick(2), Pick(3)>>,
                          transparent)
        IN  IF r.raised # "none" THEN r
            ELSE PaintCharsReset(r.buf, text, x, y, style, transparent, colour_map, i + 1)

\* The loop of paint() from the i-th character on (counted from 1): the
\* components present in the character's entry replace colour, attr and
\* bg, which are the loop's own variables, and the character is printed
\* with them.  A map with no entry for the character is an IndexError.
RECURSIVE PaintChars(_, _, _, _, _, _, _, _)
PaintChars(buf, text, x, y, style, transparent, colour_map, i) ==
    IF i > Len(text) THEN [buf |-> buf, raised |-> "none"]
    ELSE IF i > Len(colour_map) THEN [buf |-> buf, raised |-> "IndexError"]
    ELSE
        LET entry == colour_map[i]
            Pick(k) == IF Len(entry) >= k /\ entry[k] # None THEN entry[k][1] ELSE style[k]
            now == <<Pick(1), Pick(2), Pick(3)>>
            r == print_at(buf, <<text[i]>>, x + i - 1, y, now, transparent)
        IN  IF r.raised # "none" THEN r
            ELSE PaintChars(r.buf, text, x, y, now, transparent, colour_map, i + 1)

\* paint() on the pending buffer.
paint(buf, text, x, y, style, transparent, colour_map) ==
    IF colour_map = None THEN print_at(buf, text, x, y, style, transparent)
    ELSE PaintChars(buf, text, x, y, style, transparent, colour_map[1], 1)

Paint(text, x, y, style, transparent, colour_map) ==
    LET r == paint(_double_buffer, text, x, y, style, transparent, colour_map)
    IN  /\ Called([op |-> "paint", text |-> text, x |-> x, y |-> y, style |-> style,
                   transparent |-> transparent, colour_map |-> colour_map,
                   before |-> _double_buffer])
        /\ _double_buffer' = r.buf
        /\ raised' = r.raised
        /\ io' = <<>>
        /\ UNCHANGED <<backend, _start_line, _last_start_line, _screen_buffer, _x, _y,
                       _colour, _attr, _bg, terminal, scroll_calls, cleared, pc, frame>>
        /\ UNCHANGED resizevars
        /\ UNCHANGED <<playvars, palettevars, devicevars>>

\* _change_colours called on its own.
ChangeColours(colour, attr, bg) ==
    LET s == _change_colours(backend, Backend0, colour, attr, bg)
    IN  /\ Called([op |-> "change_colours", colour |-> colour, attr |-> attr, bg |-> bg])
        /\ _colour' = s.colour
        /\ _attr' = s.attr
        /\ _bg' = s.bg
        /\ io' = s.io
        /\ rendition' = DeviceAfter(rendition, s.io)
        /\ raised' = "none"
        /\ UNCHANGED <<backend, _start_line, _last_start_line, _screen_buffer,
                       _double_buffer, _x, _y, terminal, scroll_calls, cleared, pc, frame>>
        /\ UNCHANGED resizevars
        /\ UNCHANGED <<playvars, palettevars>>

Scroll ==
    /\ Called([op |-> "scroll"])
    /\ _start_line' = _start_line + 1
    /\ scroll_calls' = scroll_calls + 1
    /\ raised' = "none"
    /\ io' = <<>>
    /\ UNCHANGED <<backend, _last_start_line, _screen_buffer, _double_buffer, _x, _y,
                   _colour, _attr, _bg, terminal, cleared, pc, frame>>
    /\ UNCHANGED resizevars
    /\ UNCHANGED <<playvars, palettevars, devicevars>>

\* Clear with the start line left where scroll() put it.
ClearKeepsStartLine ==
    LET s == _clear(backend, _change_colours(backend, Backend0, COLOUR_WHITE, 0, 0))
    IN  /\ Called([op |-> "clear"])
        /\ _colour' = s.colour
        /\ _attr' = s.attr
        /\ _bg' = s.bg
        /\ terminal' = s.term
        /\ io' = s.io
        /\ rendition' = DeviceAfter(rendition, s.io)
        /\ _last_start_line' = 0
        /\ _x' = None
        /\ _y' = None
        /\ _screen_buffer' = BlankBuffer
        /\ _double_buffer' = BlankBuffer
        /\ raised' = "none"
        /\ cleared' = TRUE
        /\ UNCHANGED <<backend, _start_line, scroll_calls, pc, frame>>
        /\ UNCHANGED resizevars
        /\ UNCHANGED <<playvars, palettevars>>

\* clear(): the colours are reset on the device, the device is cleared and
\* _reset() blanks both buffers, the start lines and the cursor.
Clear ==
    LET s == _clear(backend, _change_colours(backend, Backend0, COLOUR_WHITE, 0, 0))
    IN  /\ Called([op |-> "clear"])
        /\ _colour' = s.colour
        /\ _attr' = s.attr
        /\ _bg' = s.bg
        /\ terminal' = s.term
        /\ io' = s.io
        /\ rendition' = DeviceAfter(rendition, s.io)
        /\ _start_line' = 0
        /\ _last_start_line' = 0
        /\ _x' = None
        /\ _y' = None
        /\ _screen_buffer' = BlankBuffer
        /\ _double_buffer' = BlankBuffer
        /\ raised' = "none"
        /\ cleared' = TRUE
        /\ UNCHANGED <<backend, scroll_calls, pc, frame>>
        /\ UNCHANGED resizevars
        /\ UNCHANGED <<playvars, palettevars>>

Refresh ==
    LET s == refresh(backend, Backend0, _double_buffer, _start_line, _last_start_line)
    IN  /\ Called([op |-> "refresh", scrolls |-> scroll_calls, cleared |-> cleared,
                   start |-> _start_line])
        /\ _last_start_line' = _start_line
        /\ _screen_buffer' = s.sb
        /\ _x' = s.x
        /\ _y' = s.y
        /\ _colour' = s.colour
        /\ _attr' = s.attr
        /\ _bg' = s.bg
        /\ terminal' = s.term
        /\ io' = s.io
        /\ rendition' = DeviceAfter(rendition, s.io)
        /\ raised' = s.raised
        /\ scroll_calls' = 0
        /\ cleared' = FALSE
        /\ UNCHANGED <<backend, _start_line, _double_buffer, pc, frame>>
        /\ UNCHANGED resizevars
        /\ UNCHANGED <<playvars, palettevars>>

\* The delta loop of the signal-driven backends with the write of the n-th
\* emission interrupted: sys.stdout.write raises IOError inside _print_at,
\* after the cell's colours were changed and before the cursor cache and
\* the committed buffer are touched; nothing of the cell reaches the
\* terminal.  The loop runs to its end when fewer than n cells differ.
RECURSIVE DrawDeltasInterrupted(_, _, _, _, _, _)
DrawDeltasInterrupted(b, s, db, start, k, n) ==
    IF k >= Height * Width THEN s
    ELSE
        LET y == k \div Width
            x == k % Width
            row == y + start
            cell == db[row][x]
        IN  IF row >= BufferHeight THEN [s EXCEPT !.raised = "IndexError"]
            ELSE IF s.sb[row][x] = cell
                 THEN DrawDeltasInterrupted(b, s, db, start, k + 1, n)
            ELSE IF n = 1
                 THEN [_change_colours(b, s, cell[2], cell[3], cell[4])
                          EXCEPT !.raised = "IOError"]
            ELSE DrawDeltasInterrupted(b, EmitCell(b, s, cell, x, y, row), db, start,
                                       k + 1, n - 1)

\* refresh() of _CursesScreen and _BlessedScreen while a resize signal is
\* delivered.  With n = 0 it is the flush that is interrupted, and the
\* IOError is caught where it is raised; with n >= 1 it is the write of
\* the n-th emission of the common refresh(), which no handler surrounds.
RefreshInterrupted(n) ==
    LET s0 == ScrollTimes(backend, Backend0, _start_line - _last_start_line)
        s == IF n = 0
             THEN refresh(backend, Backend0, _double_buffer, _start_line, _last_start_line)
             ELSE DrawDeltasInterrupted(backend, s0, _double_buffer, _start_line, 0, n)
    IN  /\ backend \in {"curses", "blessed"}
        /\ Called([op |-> "refresh", scrolls |-> scroll_calls, cleared |-> cleared,
                   start |-> _start_line])
        /\ _last_start_line' = _start_line
        /\ _screen_buffer' = s.sb
        /\ _x' = s.x
        /\ _y' = s.y
        /\ _colour' = s.colour
        /\ _attr' = s.attr
        /\ _bg' = s.bg
        /\ terminal' = s.term
        /\ io' = s.io
        /\ rendition' = DeviceAfter(rendition, s.io)
        /\ raised' = s.raised
        /\ scroll_calls' = 0
        /\ cleared' = FALSE
        /\ UNCHANGED <<backend, _start_line, _double_buffer, pc, frame>>
        /\ UNCHANGED resizevars
        /\ UNCHANGED <<playvars, palettevars>>

\* ------------------------------------------ Screen.move / draw ---------

\* int(round(v, 1)) for a coordinate v given in tenths: round(v, 1) keeps
\* one decimal place and int() then drops it, truncating towards zero.
IntRound1(tenths) ==
    IF tenths >= 0 THEN tenths \div 10 ELSE -((-tenths) \div 10)

\* Screen._line_chars, indexed from 0.
_line_chars(i) ==
    <<" ", "'", "'", "^", ".", "|", "/", "7", ".", "\\", "|", "Y", "w", "b", "d", "#">>[i + 1]

\* v & ~1
EvenFloor(v) == 2 * (v \div 2)

\* range(0, 2) or range(1, -1, -1)
StepRange(step) == IF step > 0 THEN <<0, 1>> ELSE <<1, 0>>

\* The value of a set of bit positions.
RECURSIVE BitsValue(_)
BitsValue(bits) ==
    IF bits = {} THEN 0
    ELSE LET e == CHOOSE b \in bits : TRUE
         IN  2 ^ e + BitsValue(bits \ {e})

\* next_chars[0 or 1] |= 2 ** bit, where minor is the minor-axis
\* coordinate that decides which of the two cells gets the bit.
Mark(f, minor, pminor, bit) ==
    IF minor >= pminor /\ minor - pminor < 2
    THEN [f EXCEPT !.nc0 = @ \cup {bit}]
    ELSE [f EXCEPT !.nc1 = @ \cup {bit}]

\* One pass of "for ix in x_range" in the dx > dy loop.
XSubStep(f, ix, py) ==
    LET a == Mark(f, f.y, py, ix + 2 * (f.y % 2))
        b == IF f.thin THEN a
             ELSE Mark(a, f.y + f.sy, py, ix + 2 * ((f.y + f.sy) % 2))
        e == b.err - 2 * f.dy
        c == IF e < 0 THEN [b EXCEPT !.y = @ + f.sy, !.err = e + 2 * f.dx]
             ELSE [b EXCEPT !.err = e]
    IN  [c EXCEPT !.x = @ + f.sx]

\* One pass of "for iy in y_range" in the other loop.
YSubStep(f, iy, px) ==
    LET a == Mark(f, f.x, px, (f.x % 2) + 2 * iy)
        b == IF f.thin THEN a
             ELSE Mark(a, f.x + f.sx, px, ((f.x + f.sx) % 2) + 2 * iy)
        e == b.err - 2 * f.dx
        c == IF e < 0 THEN [b EXCEPT !.x = @ + f.sx, !.err = e + 2 * f.dy]
             ELSE [b EXCEPT !.err = e]
    IN  [c EXCEPT !.y = @ + f.sy]

\* print_at as draw() calls it: one character, attribute 0.  A single
\* character is never stored past the end of a row, so no call raises.
Plot(buf, c, x, y, colour, bg) ==
    print_at(buf, <<c>>, x, y, <<colour, 0, bg>>, FALSE).buf

\* PlotCells with the explicit character also put into the cell after the
\* primary one.
PlotCellsRunOn(buf, f, cx, cy, ox, oy) ==
    IF f.char = None \/ f.char = Some(" ") THEN buf
    ELSE Plot(Plot(buf, f.char[1], cx, cy, f.colour, f.bg), f.char[1], cx + f.sx, cy,
              f.colour, f.bg)

\* The cells one pass of the while loop writes: cx, cy is the primary cell
\* and (ox, oy) the step to the secondary one.
PlotCells(buf, f, cx, cy, ox, oy) ==
    IF f.char = None THEN
        LET b1 == Plot(buf, _line_chars(BitsValue(f.nc0)), cx, cy, f.colour, f.bg)
        IN  IF BitsValue(f.nc1) # 0
            THEN Plot(b1, _line_chars(BitsValue(f.nc1)), cx + ox, cy + oy, f.colour, f.bg)
            ELSE b1
    ELSE IF f.char = Some(" ") THEN
        Plot(Plot(buf, " ", cx, cy, COLOUR_WHITE, f.bg), " ", cx + ox, cy + oy,
             COLOUR_WHITE, f.bg)
    ELSE Plot(buf, f.char[1], cx, cy, f.colour, f.bg)

\* One pass of "while x != x1" (dx > dy): the frame and the buffer after it.
XPass(f, buf) ==
    LET f0 == [f EXCEPT !.nc0 = {}, !.nc1 = {}]
        px == EvenFloor(f.x)
        py == EvenFloor(f.y)
        r == StepRange(f.sx)
        f2 == XSubStep(XSubStep(f0, r[1], py), r[2], py)
    IN  [frame |-> f2, buf |-> PlotCells(buf, f2, px \div 2, py \div 2, 0, f.sy)]

\* One pass of "while y != y1" (dx <= dy).
YPass(f, buf) ==
    LET f0 == [f EXCEPT !.nc0 = {}, !.nc1 = {}]
        px == EvenFloor(f.x)
        py == EvenFloor(f.y)
        r == StepRange(f.sy)
        f2 == YSubStep(YSubStep(f0, r[1], px), r[2], px)
    IN  [frame |-> f2, buf |-> PlotCells(buf, f2, px \div 2, py \div 2, f.sx, 0)]

Abs(v) == IF v < 0 THEN -v ELSE v

\* The locals of draw() when it reaches its loop.
DrawFrame(x0, y0, x1, y1, pen, colour, bg) ==
    LET dx == Abs(x1 - x0)
        dy == Abs(y1 - y0)
    IN  [x |-> x0, y |-> y0, x1 |-> x1, y1 |-> y1, dx |-> dx, dy |-> dy,
         sx |-> IF x0 > x1 THEN -1 ELSE 1, sy |-> IF y0 > y1 THEN -1 ELSE 1,
         err |-> IF dx > dy THEN dx ELSE dy, nc0 |-> {}, nc1 |-> {},
         char |-> pen.char, thin |-> pen.thin, colour |-> colour, bg |-> bg]

\* The condition of the while loop draw() is in.
Looping(f) == IF f.dx > f.dy THEN f.x # f.x1 ELSE f.y # f.y1

Move(x, y) ==
    /\ Called([op |-> "move", x |-> x, y |-> y])
    /\ _x' = Some(IntRound1(x) * 2)
    /\ _y' = Some(IntRound1(y) * 2)
    /\ raised' = "none"
    /\ io' = <<>>
    /\ UNCHANGED <<backend, _start_line, _last_start_line, _screen_buffer,
                   _double_buffer, _colour, _attr, _bg, terminal, scroll_calls,
                   cleared, pc, frame>>
    /\ UNCHANGED resizevars
    /\ UNCHANGED <<playvars, palettevars, devicevars>>

\* draw() up to its loop: the end points are fixed and the cursor is moved
\* to the target; with no cursor set (None) the subtraction raises.
Draw(x, y, pen, colour, bg) ==
    LET x1 == IntRound1(x) * 2
        y1 == IntRound1(y) * 2
    IN  /\ pc = "idle"
        /\ ops < MaxOps
        /\ ops' = ops + 1
        /\ before_refresh' = [op |-> "none"]
        /\ last_call' = [op |-> "draw", x |-> x, y |-> y, pen |-> pen, colour |-> colour,
                         bg |-> bg, from_x |-> _x, from_y |-> _y, after |-> last_call.op,
                         before |-> _double_buffer]
        /\ _x' = Some(x1)
        /\ _y' = Some(y1)
        /\ io' = <<>>
        /\ IF _x = None \/ _y = None
           THEN /\ raised' = "TypeError"
                /\ UNCHANGED <<pc, frame>>
           ELSE /\ raised' = "none"
                /\ pc' = "draw"
                /\ frame' = DrawFrame(_x[1], _y[1], x1, y1, pen, colour, bg)
        /\ UNCHANGED <<backend, _start_line, _last_start_line, _screen_buffer,
                       _double_buffer, _colour, _attr, _bg, terminal, scroll_calls,
                       cleared>>
        /\ UNCHANGED resizevars
        /\ UNCHANGED <<playvars, palettevars, devicevars>>

\* One pass of the loop draw() is in.
DrawStep ==
    /\ pc = "draw"
    /\ Looping(frame)
    /\ Abs(frame.x) <= MaxCoord
    /\ Abs(frame.y) <= MaxCoord
    /\ LET r == IF frame.dx > frame.dy THEN XPass(frame, _double_buffer)
                ELSE YPass(frame, _double_buffer)
       IN  /\ frame' = r.frame
           /\ _double_buffer' = r.buf
    /\ UNCHANGED <<backend, _start_line, _last_start_line, _screen_buffer, _x, _y,
                   _colour, _attr, _bg, terminal, io, raised, last_call,
                   before_refresh, scroll_calls, cleared, pc, ops>>
    /\ UNCHANGED resizevars
    /\ UNCHANGED <<playvars, palettevars, devicevars>>

\* The loop condition fails: draw() returns.
DrawReturn ==
    /\ pc = "draw"
    /\ ~Looping(frame)
    /\ pc' = "idle"
    /\ frame' = None
    /\ UNCHANGED <<backend, _start_line, _last_start_line, _screen_buffer,
                   _double_buffer, _x, _y, _colour, _attr, _bg, terminal, io, raised,
                   last_call, before_refresh, scroll_calls, cleared, ops>>
    /\ UNCHANGED resizevars
    /\ UNCHANGED <<playvars, palettevars, devicevars>>

\* ------------------------------------------------ resize path ---------

\* curses.KEY_RESIZE, the key code curses queues for a resize.
KEY_RESIZE == 410

\* ord("q"), an ordinary key.
KEY_Q == 113

\* The window sizes the Windows console is dragged between.
WindowSizes == {<<Width, Height>>, <<Width + 1, Height>>, <<Width, Height + 1>>}

\* A resize occurrence, as the properties count it.
Resized ==
    /\ resizes < MaxResizes
    /\ resizes' = resizes + 1
    /\ resized_since_poll' = TRUE

\* _CursesScreen._resize_handler: curses is shut down and started again,
\* then the flag is set.
Curses_resize_handler ==
    /\ tty_calls' = tty_calls \o <<"endwin", "initscr">>
    /\ _re_sized' = TRUE

\* _BlessedScreen._resize_handler
Blessed_resize_handler ==
    /\ _re_sized' = TRUE
    /\ UNCHANGED tty_calls

\* SIGWINCH reaches a curses screen: the handler runs, wherever the main
\* line is, and curses may queue KEY_RESIZE for the next key read.
CursesResize ==
    /\ backend = "curses"
    /\ Resized
    /\ Curses_resize_handler
    /\ keys' \in {keys, Append(keys, KEY_RESIZE)}
    /\ UNCHANGED <<window_size, _last_width, _last_height, hr, last_result,
                   last_event, reported, owed, polls>>
    /\ UNCHANGED bufvars
    /\ UNCHANGED <<playvars, palettevars, devicevars>>

BlessedResize ==
    /\ backend = "blessed"
    /\ Resized
    /\ Blessed_resize_handler
    /\ UNCHANGED <<window_size, _last_width, _last_height, keys, hr, last_result,
                   last_event, reported, owed, polls>>
    /\ UNCHANGED bufvars
    /\ UNCHANGED <<playvars, palettevars, devicevars>>

\* The user drags the console window to another size.
WindowsResize ==
    /\ backend = "windows"
    /\ Resized
    /\ window_size' \in WindowSizes \ {window_size}
    /\ UNCHANGED <<_re_sized, _last_width, _last_height, keys, hr, last_result,
                   last_event, tty_calls, reported, owed, polls>>
    /\ UNCHANGED bufvars
    /\ UNCHANGED <<playvars, palettevars, devicevars>>

\* The user presses a key.
KeyPress ==
    /\ backend \in {"curses", "blessed"}
    /\ Len(keys) < MaxPolls
    /\ keys' = Append(keys, KEY_Q)
    /\ UNCHANGED <<_re_sized, window_size, _last_width, _last_height, hr, last_result,
                   last_event, tty_calls, resizes, reported, resized_since_poll, owed,
                   polls>>
    /\ UNCHANGED bufvars
    /\ UNCHANGED <<playvars, palettevars, devicevars>>

\* A poll starts: the properties note whether a resize preceded it.
Polled ==
    /\ pc = "idle"
    /\ hr = None
    /\ polls < MaxPolls
    /\ polls' = polls + 1

\* has_resized() of the signal-driven backends, first statement:
\* re_sized = self._re_sized
HasResizedRead ==
    /\ backend \in {"curses", "blessed"}
    /\ Polled
    /\ hr' = Some(_re_sized)
    /\ owed' = resized_since_poll
    /\ resized_since_poll' = FALSE
    /\ UNCHANGED <<_re_sized, window_size, _last_width, _last_height, keys,
                   last_result, last_event, tty_calls, resizes, reported>>
    /\ UNCHANGED bufvars
    /\ UNCHANGED <<playvars, palettevars, devicevars>>

\* ... and the rest: self._re_sized = False; return re_sized
HasResizedReturn ==
    /\ hr # None
    /\ _re_sized' = FALSE
    /\ last_result' = hr
    /\ reported' = IF hr[1] THEN reported + 1 ELSE reported
    /\ hr' = None
    /\ UNCHANGED <<window_size, _last_width, _last_height, keys, last_event,
                   tty_calls, resizes, resized_since_poll, owed, polls>>
    /\ UNCHANGED bufvars
    /\ UNCHANGED <<playvars, palettevars, devicevars>>

\* _WindowsScreen.has_resized: the window is measured and compared with
\* what the previous call measured.
Windows_has_resized ==
    LET width == window_size[1]
        height == window_size[2]
        size_changed == /\ _last_width # None
                        /\ (Some(width) # _last_width \/ Some(height) # _last_height)
    IN  /\ backend = "windows"
        /\ Polled
        /\ _last_width' = Some(width)
        /\ _last_height' = Some(height)
        /\ last_result' = Some(size_changed)
        /\ reported' = IF size_changed THEN reported + 1 ELSE reported
        /\ owed' = resized_since_poll
        /\ resized_since_poll' = FALSE
        /\ UNCHANGED <<_re_sized, window_size, keys, hr, last_event, tty_calls, resizes>>
        /\ UNCHANGED bufvars
        /\ UNCHANGED <<playvars, palettevars, devicevars>>

\* _CursesScreen.get_event asks the window for a key with
\* self._screen.get_from().  A curses window has no method of that name
\* (its key read is getch), so on a stock window the call raises
\* AttributeError before any key is looked at.
Curses_get_event_raises ==
    /\ backend = "curses"
    /\ Polled
    /\ last_event' = [kind |-> "AttributeError"]
    /\ UNCHANGED <<_re_sized, window_size, _last_width, _last_height, keys, hr,
                   last_result, tty_calls, resizes, reported, resized_since_poll, owed>>
    /\ UNCHANGED bufvars
    /\ UNCHANGED <<playvars, palettevars, devicevars>>

\* _CursesScreen.get_event on a window that answers the call with the next
\* key code, -1 when none is waiting: KEY_RESIZE sets the flag and yields
\* no event, any other key is returned as a KeyboardEvent.
Curses_get_event ==
    LET key == IF keys = <<>> THEN -1 ELSE Head(keys)
    IN  /\ backend = "curses"
        /\ Polled
        /\ keys' = IF keys = <<>> THEN keys ELSE Tail(keys)
        /\ _re_sized' = IF key = KEY_RESIZE THEN TRUE ELSE _re_sized
        /\ last_event' = IF key = KEY_RESIZE \/ key = -1 THEN [kind |-> "none"]
                         ELSE [kind |-> "KeyboardEvent", key_code |-> key]
        /\ UNCHANGED <<window_size, _last_width, _last_height, hr, last_result,
                       tty_calls, resizes, reported, resized_since_poll, owed>>
        /\ UNCHANGED bufvars
        /\ UNCHANGED <<playvars, palettevars, devicevars>>

\* _BlessedScreen.get_event: inkey(timeout=0) gives the next key or "".
Blessed_get_event ==
    /\ backend = "blessed"
    /\ Polled
    /\ keys' = IF keys = <<>> THEN keys ELSE Tail(keys)
    /\ last_event' = IF keys = <<>> THEN [kind |-> "none"]
                     ELSE [kind |-> "KeyboardEvent", key_code |-> Head(keys)]
    /\ UNCHANGED <<_re_sized, window_size, _last_width, _last_height, hr, last_result,
                   tty_calls, resizes, reported, resized_since_poll, owed>>
    /\ UNCHANGED bufvars
    /\ UNCHANGED <<playvars, palettevars, devicevars>>

\* ------------------------------------------------ Screen.play ----------

\* The key codes that play() ends on and the ones it skips a scene on.
QuitKeys == {88, 120, 81, 113}

SkipKeys == {32, 10}

KeyboardEvent(key_code) == [type |-> "key", key_code |-> key_code]

MouseEvent == [type |-> "mouse"]

\* A record of the input queue that get_event() consumes and reports as no
\* event: a key release or a buffer-size record of the Windows console,
\* KEY_RESIZE under curses.
NoEventRecord == [type |-> "none"]

InputRecords ==
    {KeyboardEvent(c) : c \in {113, 88, 32, 10, -203}} \cup {MouseEvent, NoEventRecord}

\* get_event(): one record is taken from the queue, whatever it is, and
\* None is the answer both for an empty queue and for a record that is no
\* event.
get_event(q) ==
    IF q = <<>> THEN [event |-> None, rest |-> q]
    ELSE [event |-> IF Head(q).type \in {"key", "mouse"} THEN Some(Head(q)) ELSE None,
          rest |-> Tail(q)]

\* The event is a KeyboardEvent with one of the key codes.
IsKey(ev, codes) ==
    ev # None /\ ev[1].type = "key" /\ ev[1].key_code \in codes

\* The effects a scene programme talks about.
EffectIds == 1..3

\* A scene as play() reads it: its duration (negative: until told to stop)
\* and its clear flag.  Its effects are held in the variable effects.
Scene(duration, clear) == [duration |-> duration, clear |-> clear]

\* The programmes played: the scenes, each scene's effects in order, and
\* each effect's delete count.
Programmes ==
    { [scenes |-> <<Scene(2, TRUE)>>,
       effects |-> << <<1, 2, 3>> >>,
       delete_count |-> <<Some(1), Some(1), None>>],
      [scenes |-> <<Scene(-1, FALSE), Scene(1, TRUE)>>,
       effects |-> << <<1>>, <<2, 3>> >>,
       delete_count |-> <<None, Some(2), Some(1)>>],
      [scenes |-> <<Scene(0, TRUE), Scene(3, FALSE)>>,
       effects |-> << <<3>>, <<1, 2>> >>,
       delete_count |-> <<Some(2), None, None>>] }

\* Scene.remove_effect: the effect leaves the scene's own list, the one
\* play() is iterating over.
remove_effect(list, effect) ==
    SelectSeq(list, LAMBDA e : e # effect)

\* What a scene's run starts from: the delete counts of its effects as they
\* are, nothing updated, nothing refreshed.
RunStart(ix) ==
    [start   |-> [e \in EffectIds |->
                    IF \E i \in 1..Len(effects[ix]) : effects[ix][i] = e
                    THEN delete_count[e] ELSE run.start[e]],
     updates |-> [e \in EffectIds |->
                    IF \E i \in 1..Len(effects[ix]) : effects[ix][i] = e
                    THEN 0 ELSE run.updates[e]],
     refreshes |-> 0,
     frames  |-> <<>>]

\* The locals of play() that a step leaves alone.
PlayFrame(changed) ==
    /\ UNCHANGED <<scenes, stop_on_resize, inputs>>
    /\ UNCHANGED bufvars
    /\ UNCHANGED resizevars
    /\ UNCHANGED <<palettevars, devicevars>>
    /\ IF "effects" \in changed THEN TRUE ELSE UNCHANGED <<effects, delete_count>>
    /\ IF "input" \in changed THEN TRUE ELSE UNCHANGED <<inputq, event>>
    /\ IF "scene" \in changed THEN TRUE ELSE UNCHANGED <<scene_ix, re_sized, skipped>>
    /\ IF "tick" \in changed THEN TRUE ELSE UNCHANGED <<tick_frame, iter_ix, ticks, tick_effects, updated>>
    /\ IF "polled" \in changed THEN TRUE ELSE UNCHANGED <<queued, quit_polled, skip_polled>>
    /\ IF "run" \in changed THEN TRUE ELSE UNCHANGED run

\* A record arrives in the backend's input queue.
InputArrives(record) ==
    /\ inputs < MaxInputs
    /\ ppc \notin {"idle", "returned", "raised"}
    /\ inputs' = inputs + 1
    /\ inputq' = Append(inputq, record)
    /\ UNCHANGED <<scenes, stop_on_resize, effects, delete_count, ppc, scene_ix,
                   tick_frame, iter_ix, re_sized, skipped, event, last_step, ticks,
                   tick_effects, updated, queued, quit_polled, skip_polled, run>>
    /\ UNCHANGED <<bufvars, resizevars, palettevars, devicevars>>

\* play(): the screen is cleared before the first scene.
PlayStart ==
    /\ ppc = "start"
    /\ ppc' = "enter"
    /\ last_step' = "clear"
    /\ PlayFrame({})

\* The head of the for loop and the lines before the tick loop: the scene
\* is taken, the screen cleared if the scene asks for it, the scene reset.
PlayEnterScene ==
    /\ ppc = "enter"
    /\ ppc' = "test"
    /\ tick_frame' = 0
    /\ re_sized' = FALSE
    /\ skipped' = FALSE
    /\ last_step' = IF scenes[scene_ix].clear THEN "clear+reset" ELSE "reset"
    /\ run' = RunStart(scene_ix)
    /\ quit_polled' = FALSE
    /\ skip_polled' = FALSE
    /\ queued' = 0
    /\ UNCHANGED <<scene_ix, iter_ix, ticks, tick_effects, updated>>
    /\ PlayFrame({"scene", "tick", "run", "polled"})

\* TickCondition without the skip flag.
TickConditionNoSkip ==
    /\ scenes[scene_ix].duration < 0 \/ tick_frame < scenes[scene_ix].duration
    /\ ~re_sized

\* TickCondition without the resize flag.
TickConditionNoResize ==
    /\ scenes[scene_ix].duration < 0 \/ tick_frame < scenes[scene_ix].duration
    /\ ~skipped

\* TickCondition letting one tick more through.
TickConditionOneMore ==
    /\ scenes[scene_ix].duration < 0 \/ tick_frame <= scenes[scene_ix].duration
    /\ ~re_sized
    /\ ~skipped

\* The condition of the tick loop.
TickCondition ==
    /\ scenes[scene_ix].duration < 0 \/ tick_frame < scenes[scene_ix].duration
    /\ ~re_sized
    /\ ~skipped

\* The tick loop's test and, when it passes, the start of a tick.
PlayTest ==
    /\ ppc = "test"
    /\ IF TickCondition
       THEN /\ ticks < MaxTicks
            /\ ppc' = "effects"
            /\ tick_frame' = tick_frame + 1
            /\ iter_ix' = 1
            /\ ticks' = ticks + 1
            /\ tick_effects' = effects[scene_ix]
            /\ updated' = <<>>
            /\ run' = [run EXCEPT !.frames = Append(@, tick_frame + 1)]
       ELSE /\ ppc' = "after"
            /\ UNCHANGED <<tick_frame, iter_ix, ticks, tick_effects, updated, run>>
    /\ UNCHANGED last_step
    /\ PlayFrame({"tick", "run"})

\* PlayEffect leaving the delete count as it is.
PlayEffectNoCountdown ==
    /\ ppc = "effects"
    /\ iter_ix <= Len(effects[scene_ix])
    /\ updated' = Append(updated, <<effects[scene_ix][iter_ix], tick_frame>>)
    /\ run' = [run EXCEPT !.updates[effects[scene_ix][iter_ix]] = @ + 1]
    /\ iter_ix' = iter_ix + 1
    /\ last_step' = "update"
    /\ UNCHANGED <<ppc, tick_frame, ticks, tick_effects, effects, delete_count>>
    /\ PlayFrame({"effects", "tick", "run"})

\* One round of the loop over the scene's effects: the effect at the
\* iterator's position is updated, its delete count taken down, and the
\* effect removed when the count reaches zero.  The iterator moves on by
\* one whatever has happened to the list.
PlayEffect ==
    /\ ppc = "effects"
    /\ iter_ix <= Len(effects[scene_ix])
    /\ LET effect == effects[scene_ix][iter_ix]
           count  == IF delete_count[effect] = None THEN None
                     ELSE Some(delete_count[effect][1] - 1)
       IN  /\ updated' = Append(updated, <<effect, tick_frame>>)
           /\ run' = [run EXCEPT !.updates[effect] = @ + 1]
           /\ delete_count' = [delete_count EXCEPT ![effect] = count]
           /\ effects' = IF count = Some(0)
                         THEN [effects EXCEPT ![scene_ix] = remove_effect(@, effect)]
                         ELSE effects
    /\ iter_ix' = iter_ix + 1
    /\ last_step' = "update"
    /\ UNCHANGED <<ppc, tick_frame, ticks, tick_effects>>
    /\ PlayFrame({"effects", "tick", "run"})

\* The effects are done: the screen is refreshed.
PlayRefresh ==
    /\ ppc = "effects"
    /\ iter_ix > Len(effects[scene_ix])
    /\ ppc' = "poll"
    /\ last_step' = "refresh"
    /\ run' = [run EXCEPT !.refreshes = @ + 1]
    /\ queued' = Len(inputq)
    /\ UNCHANGED <<quit_polled, skip_polled>>
    /\ PlayFrame({"run", "polled"})

\* event = self.get_event() and the test of the drain loop.
PlayPoll ==
    /\ ppc = "poll"
    /\ LET g == get_event(inputq)
       IN  /\ event' = g.event
           /\ inputq' = g.rest
           /\ ppc' = IF g.event = None THEN "resize" ELSE "process"
           /\ queued' = IF inputq = <<>> \/ queued = 0 THEN queued ELSE queued - 1
           /\ quit_polled' = (quit_polled \/ IsKey(g.event, QuitKeys))
           /\ skip_polled' = (skip_polled \/ IsKey(g.event, SkipKeys))
    /\ last_step' = "get_event"
    /\ PlayFrame({"input", "polled"})

\* PlayProcess taking a quit key for an ordinary one.
PlayProcessNoQuit(consumed) ==
    /\ ppc = "process"
    /\ event' = IF consumed THEN None ELSE event
    /\ ppc' = IF IsKey(event', SkipKeys) THEN "resize" ELSE "poll"
    /\ skipped' = (skipped \/ IsKey(event', SkipKeys))
    /\ last_step' = "process_event"
    /\ UNCHANGED <<inputq, scene_ix, re_sized>>
    /\ PlayFrame({"input", "scene"})

\* The body of the drain loop: the scene is handed the event and hands it
\* back or consumes it; a quit key handed back ends play(), a skip key
\* handed back ends the tick's polling.
PlayProcess(consumed) ==
    /\ ppc = "process"
    /\ event' = IF consumed THEN None ELSE event
    /\ ppc' = IF IsKey(event', QuitKeys) THEN "returned"
              ELSE IF IsKey(event', SkipKeys) THEN "resize"
              ELSE "poll"
    /\ skipped' = (skipped \/ IsKey(event', SkipKeys))
    /\ last_step' = "process_event"
    /\ UNCHANGED <<inputq, scene_ix, re_sized>>
    /\ PlayFrame({"input", "scene"})

\* re_sized = self.has_resized(), and the sleep that ends the tick.
PlayResizeCheck(answer) ==
    /\ ppc = "resize"
    /\ re_sized' = answer
    /\ ppc' = "test"
    /\ last_step' = "has_resized"
    /\ UNCHANGED <<scene_ix, skipped>>
    /\ PlayFrame({"scene"})

\* The scene after this one; the while loop starts the list again.
NextScene(ix) == IF ix = Len(scenes) THEN 1 ELSE ix + 1

\* PlayAfterScene with play() returning after the last scene.
PlayAfterSceneOnce ==
    /\ ppc = "after"
    /\ IF re_sized /\ stop_on_resize
       THEN ppc' = "raised" /\ UNCHANGED scene_ix
       ELSE IF scene_ix = Len(scenes)
       THEN ppc' = "returned" /\ UNCHANGED scene_ix
       ELSE ppc' = "enter" /\ scene_ix' = scene_ix + 1
    /\ UNCHANGED <<re_sized, skipped, last_step>>
    /\ PlayFrame({"scene"})

\* After the tick loop: a resize ends play() when the caller asked for it,
\* and the for loop moves on otherwise.
PlayAfterScene ==
    /\ ppc = "after"
    /\ IF re_sized /\ stop_on_resize
       THEN ppc' = "raised" /\ UNCHANGED scene_ix
       ELSE ppc' = "enter" /\ scene_ix' = NextScene(scene_ix)
    /\ UNCHANGED <<re_sized, skipped, last_step>>
    /\ PlayFrame({"scene"})

\* ------------------------------------------------ Screen.palette -------

\* Screen._8_palette: the eight ANSI colours, and zeros for the other 248.
_8_palette ==
    <<0, 0, 0, 128, 0, 0, 0, 128, 0, 128, 128, 0, 0, 0, 128, 128, 0, 128, 0, 128, 128, 192, 192, 192>>
        \o [i \in 1..(248 * 3) |-> 0]

\* Screen._256_palette.
_256_palette ==
    <<
      0, 0, 0, 128, 0, 0, 0, 128, 0, 128, 128, 0, 0, 0, 128, 128,
      0, 128, 0, 128, 128, 192, 192, 192, 128, 128, 128, 255, 0, 0, 0, 255,
      0, 255, 255, 0, 0, 0, 255, 255, 0, 255, 0, 255, 255, 255, 255, 255,
      0, 0, 0, 0, 0, 95, 0, 0, 135, 0, 0, 175, 0, 0, 215, 0,
      0, 255, 0, 95, 0, 0, 95, 95, 0, 95, 135, 0, 95, 175, 0, 95,
      215, 0, 95, 255, 0, 135, 0, 0, 135, 95, 0, 135, 135, 0, 135, 175,
      0, 135, 215, 0, 135, 255, 0, 175, 0, 0, 175, 95, 0, 175, 135, 0,
      175, 175, 0, 175, 215, 0, 175, 255, 0, 215, 0, 0, 215, 95, 0, 215,
      135, 0, 215, 175, 0, 215, 215, 0, 215, 255, 0, 255, 0, 0, 255, 95,
      0, 255, 135, 0, 255, 175, 0, 255, 215, 0, 255, 255, 95, 0, 0, 95,
      0, 95, 95, 0, 135, 95, 0, 175, 95, 0, 215, 95, 0, 255, 95, 95,
      0, 95, 95, 95, 95, 95, 135, 95, 95, 175, 95, 95, 215, 95, 95, 255,
      95, 135, 0, 95, 135, 95, 95, 135, 135, 95, 135, 175, 95, 135, 215, 95,
      135, 255, 95, 175, 0, 95, 175, 95, 95, 175, 135, 95, 175, 175, 95, 175,
      215, 95, 175, 255, 95, 215, 0, 95, 215, 95, 95, 215, 135, 95, 215, 175,
      95, 215, 215, 95, 215, 255, 95, 255, 0, 95, 255, 95, 95, 255, 135, 95,
      255, 175, 95, 255, 215, 95, 255, 255, 135, 0, 0, 135, 0, 95, 135, 0,
      135, 135, 0, 175, 135, 0, 215, 135, 0, 255, 135, 95, 0, 135, 95, 95,
      135, 95, 135, 135, 95, 175, 135, 95, 215, 135, 95, 255, 135, 135, 0, 135,
      135, 95, 135, 135, 135, 135, 135, 175, 135, 135, 215, 135, 135, 255, 135, 175,
      0, 135, 175, 95, 135, 175, 135, 135, 175, 175, 135, 175, 215, 135, 175, 255,
      135, 215, 0, 135, 215, 95, 135, 215, 135, 135, 215, 175, 135, 215, 215, 135,
      215, 255, 135, 255, 0, 135, 255, 95, 135, 255, 135, 135, 255, 175, 135, 255,
      215, 135, 255, 255, 175, 0, 0, 175, 0, 95, 175, 0, 135, 175, 0, 175,
      175, 0, 215, 175, 0, 255, 175, 95, 0, 175, 95, 95, 175, 95, 135, 175,
      95, 175, 175, 95, 215, 175, 95, 255, 175, 135, 0, 175, 135, 95, 175, 135,
      135, 175, 135, 175, 175, 135, 215, 175, 135, 255, 175, 175, 0, 175, 175, 95,
      175, 175, 135, 175, 175, 175, 175, 175, 215, 175, 175, 255, 175, 215, 0, 175,
      215, 95, 175, 215, 135, 175, 215, 175, 175, 215, 215, 175, 215, 255, 175, 255,
      0, 175, 255, 95, 175, 255, 135, 175, 255, 175, 175, 255, 215, 175, 255, 255,
      215, 0, 0, 215, 0, 95, 215, 0, 135, 215, 0, 175, 215, 0, 215, 215,
      0, 255, 215, 95, 0, 215, 95, 95, 215, 95, 135, 215, 95, 175, 215, 95,
      215, 215, 95, 255, 215, 135, 0, 215, 135, 95, 215, 135, 135, 215, 135, 175,
      215, 135, 215, 215, 135, 255, 215, 175, 0, 215, 175, 95, 215, 175, 135, 215,
      175, 175, 215, 175, 215, 215, 175, 255, 215, 215, 0, 215, 215, 95, 215, 215,
      135, 215, 215, 175, 215, 215, 215, 215, 215, 255, 215, 255, 0, 215, 255, 95,
      215, 255, 135, 215, 255, 175, 215, 255, 215, 215, 255, 255, 255, 0, 0, 255,
      0, 95, 255, 0, 135, 255, 0, 175, 255, 0, 215, 255, 0, 255, 255, 95,
      0, 255, 95, 95, 255, 95, 135, 255, 95, 175, 255, 95, 215, 255, 95, 255,
      255, 135, 0, 255, 135, 95, 255, 135, 135, 255, 135, 175, 255, 135, 215, 255,
      135, 255, 255, 175, 0, 255, 175, 95, 255, 175, 135, 255, 175, 175, 255, 175,
      215, 255, 175, 255, 255, 215, 0, 255, 215, 95, 255, 215, 135, 255, 215, 175,
      255, 215, 215, 255, 215, 255, 255, 255, 0, 255, 255, 95, 255, 255, 135, 255,
      255, 175, 255, 255, 215, 255, 255, 255, 8, 8, 8, 18, 18, 18, 28, 28,
      28, 38, 38, 38, 48, 48, 48, 58, 58, 58, 68, 68, 68, 78, 78, 78,
      88, 88, 88, 98, 98, 98, 108, 108, 108, 118, 118, 118, 128, 128, 128, 138,
      138, 138, 148, 148, 148, 158, 158, 158, 168, 168, 168, 178, 178, 178, 188, 188,
      188, 198, 198, 198, 208, 208, 208, 218, 218, 218, 228, 228, 228, 238, 238, 238
    >>

\* The palette property always handing out the eight colours alone.
palette_short(depth) ==
    SubSeq(_8_palette, 1, 24)

\* The palette property for a colour depth.
palette(depth) ==
    IF depth < 256 THEN _8_palette ELSE _256_palette

\* The application reads the palette.
ReadPalette ==
    /\ palette_read' = Some(palette(colours))
    /\ UNCHANGED colours
    /\ UNCHANGED <<bufvars, resizevars, playvars, devicevars>>

\* ------------------------------------------------ specification --------

\* The screen as its constructor leaves it.
InitScreen ==
    /\ backend \in Backends
    /\ _start_line = 0
    /\ _last_start_line = 0
    /\ _screen_buffer = BlankBuffer
    /\ _double_buffer = BlankBuffer
    /\ _x = None
    /\ _y = None
    /\ _colour = None
    /\ _attr = None
    /\ _bg = None
    /\ terminal = BlankTerminal
    /\ rendition = DefaultRendition
    /\ io = <<>>
    /\ raised = "none"
    /\ last_call = [op |-> "init"]
    /\ before_refresh = [op |-> "none"]
    /\ scroll_calls = 0
    /\ cleared = FALSE
    /\ pc = "idle"
    /\ frame = None
    /\ ops = 0
    /\ _re_sized = FALSE
    /\ window_size = <<Width, Height>>
    /\ _last_width = None
    /\ _last_height = None
    /\ keys = <<>>
    /\ hr = None
    /\ last_result = None
    /\ last_event = [kind |-> "none"]
    /\ tty_calls = <<>>
    /\ resizes = 0
    /\ reported = 0
    /\ resized_since_poll = FALSE
    /\ owed = FALSE
    /\ polls = 0

\* play() called with a programme of scenes.
InitPlaying(programme, stop) ==
    /\ scenes = programme.scenes
    /\ stop_on_resize = stop
    /\ effects = programme.effects
    /\ delete_count = programme.delete_count
    /\ inputq = <<>>
    /\ inputs = 0
    /\ scene_ix = 1
    /\ tick_frame = 0
    /\ iter_ix = 1
    /\ re_sized = FALSE
    /\ skipped = FALSE
    /\ event = None
    /\ last_step = "none"
    /\ ticks = 0
    /\ tick_effects = <<>>
    /\ updated = <<>>
    /\ queued = 0
    /\ quit_polled = FALSE
    /\ skip_polled = FALSE
    /\ run = [start |-> programme.delete_count, updates |-> [e \in EffectIds |-> 0],
              refreshes |-> 0, frames |-> <<>>]

\* A terminal of eight colours, its palette not read yet.
InitColours ==
    /\ colours = 8
    /\ palette_read = None

\* play() not called.
InitIdle ==
    /\ InitPlaying([scenes |-> <<>>, effects |-> <<>>,
                    delete_count |-> [e \in EffectIds |-> None]], FALSE)
    /\ ppc = "idle"

\* The screen with play() not called.
Init ==
    /\ InitScreen
    /\ InitIdle
    /\ InitColours

\* The screen on a terminal of any colour depth: the Windows console has
\* eight colours, the other backends take what the terminal reports.
InitPalette ==
    /\ InitScreen
    /\ InitIdle
    /\ colours \in IF backend = "windows" THEN {8} ELSE 0..MaxColours
    /\ palette_read = None

\* The Windows console with play() entered.
InitPlay ==
    /\ InitScreen
    /\ backend = "windows"
    /\ \E programme \in Programmes, stop \in BOOLEAN : InitPlaying(programme, stop)
    /\ ppc = "start"
    /\ InitColours

Next ==
    \/ \E text \in Texts, x \in XCoords, y \in YCoords, mode \in Modes :
          PrintAt(text, x, y, mode.style, mode.transparent)
    \/ Scroll
    \/ Clear
    \/ Refresh
    \/ \E x \in MoveXs, y \in MoveYs : Move(x, y)

Spec == Init /\ [][Next]_vars

\* The drawing surface: the pen is moved, lines are drawn, and the screen
\* is refreshed and cleared in between.
NextDraw ==
    \/ \E x \in MoveXs, y \in MoveYs : Move(x, y)
    \/ \E x \in DrawXs, y \in DrawYs, pen \in Pens : Draw(x, y, pen, COLOUR_GREEN, COLOUR_BLUE)
    \/ DrawStep
    \/ DrawReturn
    \/ Refresh
    \/ Clear

SpecDraw == Init /\ [][NextDraw]_vars

\* The resize path: resizes arrive at any point of the main line, which
\* polls has_resized() and get_event().
NextResize ==
    \/ CursesResize
    \/ BlessedResize
    \/ WindowsResize
    \/ KeyPress
    \/ HasResizedRead
    \/ HasResizedReturn
    \/ Windows_has_resized
    \/ Curses_get_event_raises
    \/ Curses_get_event
    \/ Blessed_get_event

SpecResize == Init /\ [][NextResize]_vars

\* print_at alone, over wide texts and far-out columns.
NextPrint ==
    \E text \in WideTexts, x \in WideXs, y \in WideYs, m \in Modes :
        ops < MaxPrints /\ PrintAt(text, x, y, m.style, m.transparent)

SpecPrint == Init /\ [][NextPrint]_vars

\* The drawing cursor among the other calls: moves and draws to fractional
\* coordinates, with a character printed and the screen refreshed in
\* between.
NextCursor ==
    \/ \E x \in TenthCoords, y \in MoveYs : Move(x, y)
    \/ \E x \in TenthCoords, y \in MoveYs :
          Draw(x, y, [char |-> Some("#"), thin |-> FALSE], COLOUR_GREEN, COLOUR_BLUE)
    \/ DrawStep
    \/ DrawReturn
    \/ \E x \in 0..1 : PrintAt(<<"B">>, x, 0, DefaultStyle, FALSE)
    \/ Refresh

SpecCursor == Init /\ [][NextCursor]_vars

\* The text calls built on print_at.
NextText ==
    \/ \E text \in PaintTexts, x \in (-1)..1, y \in 0..1, transparent \in BOOLEAN,
          colour_map \in ColourMaps :
          /\ ops < MaxPrints
          /\ Paint(text, x, y, DefaultStyle, transparent, colour_map)
    \/ \E text \in PaintTexts, x \in (-1)..1, y \in 0..1, mode \in Modes :
          /\ ops < MaxPrints
          /\ Putch(text, x, y, mode.style, mode.transparent)

SpecText == Init /\ [][NextText]_vars

\* The device state changed from call to call, with a character printed
\* and refreshed in between.
NextColours ==
    \/ \E colour \in {COLOUR_WHITE, COLOUR_GREEN}, attr \in {0, A_BOLD},
          bg \in {COLOUR_BLACK, COLOUR_BLUE} : ChangeColours(colour, attr, bg)
    \/ \E mode \in Modes : PrintAt(<<"B">>, 0, 0, mode.style, mode.transparent)
    \/ Refresh

SpecColours == Init /\ [][NextColours]_vars

\* Printing and refreshing while resize signals interrupt the output.
NextInterrupt ==
    \/ \E x \in 0..1, y \in 0..1, mode \in Modes :
          PrintAt(<<" ", "B">>, x, y, mode.style, mode.transparent)
    \/ Refresh
    \/ \E n \in 0..2 : RefreshInterrupted(n)

SpecInterrupt == Init /\ [][NextInterrupt]_vars

\* Printing, scrolling and refreshing while resize signals interrupt the
\* output.
NextRefresh ==
    \/ \E x \in 0..1, y \in 0..BufferHeight - 1, mode \in Modes :
          PrintAt(<<"B">>, x, y, mode.style, mode.transparent)
    \/ Scroll
    \/ Refresh
    \/ \E n \in 1..2 : RefreshInterrupted(n)

SpecRefresh == Init /\ [][NextRefresh]_vars

\* The palette read on terminals of every depth.
NextPalette == ReadPalette

SpecPalette == InitPalette /\ [][NextPalette]_vars

\* play() running a programme while input arrives and the terminal is
\* resized.
NextPlay ==
    \/ \E record \in InputRecords : InputArrives(record)
    \/ PlayStart
    \/ PlayEnterScene
    \/ PlayTest
    \/ PlayEffect
    \/ PlayRefresh
    \/ PlayPoll
    \/ \E consumed \in BOOLEAN : PlayProcess(consumed)
    \/ \E answer \in BOOLEAN : PlayResizeCheck(answer)
    \/ PlayAfterScene

SpecPlay == InitPlay /\ [][NextPlay]_vars

\* ------------------------------------------------- properties ----------

\* The physical scrolls among the backend calls of a log.
ScrollsIn(log) == Cardinality({i \in 1..Len(log) : log[i].op = "scroll"})

\* C1: after print_at(text, x0, y, colour, attr, bg) and then refresh(),
\* get_from(x, y) of every column x of a viewport row y that the text
\* covers with a character c (other than a space printed transparently)
\* is (ord(c), colour, attr, bg).
C1_RoundTrip ==
    (last_call.op = "refresh" /\ before_refresh.op = "print_at") =>
        \A x \in 0..(Width - 1) :
            LET p == before_refresh
                i == x - p.x + 1
            IN  (/\ p.y >= _start_line
                 /\ p.y < _start_line + Height
                 /\ p.y < BufferHeight
                 /\ i >= 1
                 /\ i <= Len(p.text)
                 /\ ~(p.transparent /\ p.text[i] = " "))
                => get_from(_screen_buffer, x, p.y)
                       = <<Ord(p.text[i]), p.style[1], p.style[2], p.style[3]>>

\* A left-clipped, coloured print into the scrolled viewport came back
\* from get_from after the refresh.
C1_Witness ==
    /\ last_call.op = "refresh"
    /\ before_refresh.op = "print_at"
    /\ _start_line = 1
    /\ before_refresh.x = -1
    /\ before_refresh.y = 2
    /\ before_refresh.style = OtherStyle
    /\ get_from(_screen_buffer, 0, 2) = <<66, COLOUR_GREEN, A_BOLD, COLOUR_BLUE>>

\* C2 as claimed: after a completed refresh() the committed buffer equals
\* the pending buffer in every cell of the grid.
C2_CommittedEqualsPending ==
    (last_call.op = "refresh" /\ raised = "none") => _screen_buffer = _double_buffer

\* C2 as amended: after a completed refresh() the committed buffer equals
\* the pending buffer in every cell of the current viewport.
C2_ViewportCommitted ==
    (last_call.op = "refresh" /\ raised = "none") =>
        \A r \in 0..(Height - 1), x \in 0..(Width - 1) :
            _screen_buffer[_start_line + r][x] = _double_buffer[_start_line + r][x]

\* A completed refresh() committed a drawn viewport cell and left a dirty
\* cell below the viewport.
C2_Witness ==
    /\ last_call.op = "refresh"
    /\ raised = "none"
    /\ \E r \in 0..(Height - 1), x \in 0..(Width - 1) :
           _screen_buffer[_start_line + r][x] # BlankCell
    /\ _screen_buffer # _double_buffer

\* C3: when a refresh() completes, the character the device shows at every
\* screen position (x, r) is that of the committed cell (x, start_line + r).
C3_DeviceMirrorsCommitted ==
    (last_call.op = "refresh" /\ raised = "none") =>
        \A r \in 0..(Height - 1), x \in 0..(Width - 1) :
            terminal.chars[r][x] = _screen_buffer[_start_line + r][x][1]

\* C4: print_at completes without raising, whatever its x, y and text.
C4_PrintAtNeverRaises ==
    last_call.op = "print_at" => raised = "none"

\* C5: a refresh() issues as many physical scrolls as scroll() was called
\* since the previous refresh() (no clear() in between), and a refresh()
\* right after a refresh() issues none.
C5_ScrollsIssued ==
    /\ (last_call.op = "refresh" /\ ~last_call.cleared)
           => ScrollsIn(io) = last_call.scrolls
    /\ (last_call.op = "refresh" /\ before_refresh.op = "refresh")
           => ScrollsIn(io) = 0

\* Two scroll() calls were followed by a refresh() that scrolled twice.
C5_Witness ==
    /\ last_call.op = "refresh"
    /\ ~last_call.cleared
    /\ last_call.scrolls = 2
    /\ ScrollsIn(io) = 2

\* C6: the buffer is at least as tall as the screen and the viewport lies
\* inside it: 0 <= start_line <= buffer_height - height.
C6_ViewportInBuffer ==
    /\ BufferHeight >= Height
    /\ 0 <= _start_line
    /\ _start_line <= BufferHeight - Height

C8_NoResizeLost ==
    (hr = None /\ last_result # None /\ owed) => last_result = Some(TRUE)

\* C9: the resize signal handler changes the resize flag and nothing else:
\* no buffer, no cached cursor or colour, no device or terminal call.
C9_HandlerOnlySetsFlag ==
    [][(CursesResize \/ BlessedResize) => UNCHANGED <<bufvars, tty_calls>>]_vars

\* The case C10 is about: draw() has returned from a pure horizontal line
\* with an explicit character other than a space, started by move().
HorizontalCharLine ==
    /\ last_call.op = "draw"
    /\ pc = "idle"
    /\ raised = "none"
    /\ last_call.after = "move"
    /\ last_call.pen.char # None
    /\ last_call.pen.char # Some(" ")
    /\ last_call.from_y = Some(IntRound1(last_call.y) * 2)
    /\ last_call.from_x # Some(IntRound1(last_call.x) * 2)

\* C10 as claimed: such a draw(x1, y, char=c) leaves c in the pending cell
\* of its end point (x1, y) and the cursor at logical (x1, y).
C10_EndPointWritten ==
    HorizontalCharLine =>
        LET x1 == IntRound1(last_call.x)
            y1 == IntRound1(last_call.y)
        IN  /\ (x1 \in 0..(Width - 1) /\ y1 \in 0..(BufferHeight - 1))
                   => _double_buffer[y1][x1][1] = last_call.pen.char[1]
            /\ _x = Some(2 * x1)
            /\ _y = Some(2 * y1)

\* C10 as amended: such a draw(x1, y, char=c) from (x0, y) leaves c in
\* every pending cell from (x0, y) up to, and not including, the end point
\* (x1, y); the end point's cell is left as it was, and the cursor is left
\* at logical (x1, y).
C10_LineStopsBeforeEndPoint ==
    HorizontalCharLine =>
        LET x0 == last_call.from_x[1] \div 2
            x1 == IntRound1(last_call.x)
            y1 == IntRound1(last_call.y)
            lo == IF x0 < x1 THEN x0 ELSE x1 + 1
            hi == IF x0 < x1 THEN x1 - 1 ELSE x0
        IN  /\ y1 \in 0..(BufferHeight - 1) =>
                   /\ \A x \in 0..(Width - 1) :
                          (lo <= x /\ x <= hi) =>
                              _double_buffer[y1][x]
                                  = <<last_call.pen.char[1], last_call.colour, 0, last_call.bg>>
                   /\ x1 \in 0..(Width - 1) =>
                          _double_buffer[y1][x1] = last_call.before[y1][x1]
            /\ _x = Some(2 * x1)
            /\ _y = Some(2 * y1)

\* move(0, 0); draw(2, 0, char="#") has returned: cells 0 and 1 of row 0
\* hold "#", cell 2 does not.
C10_Witness ==
    /\ HorizontalCharLine
    /\ last_call.from_x = Some(0)
    /\ last_call.x = 20
    /\ _double_buffer[0][0][1] = "#"
    /\ _double_buffer[0][1][1] = "#"
    /\ _double_buffer[0][2][1] # "#"

\* A step that is the public call op made (op is the new last call).
CallStep(op) == last_call'.op = op /\ ops' = ops + 1

\* C11: after move(a, b), a following print_at, scroll, refresh or clear
\* call leaves the drawing cursor at sub-cell (2a, 2b).
C11_CursorPersists ==
    [][(/\ last_call.op = "move"
        /\ \E op \in {"print_at", "scroll", "refresh", "clear"} : CallStep(op))
       => (/\ _x' = Some(IntRound1(last_call.x) * 2)
           /\ _y' = Some(IntRound1(last_call.y) * 2))]_vars

\* C12: no step of a draw() call issues a device call, changes a committed
\* cell, the device, the cached colours or the position the backend
\* remembers its last emission to have ended at.
C12_DrawLeavesDeviceStateAlone ==
    [][(last_call'.op = "draw" /\ (CallStep("draw") \/ pc = "draw"))
       => (/\ io' = <<>>
           /\ UNCHANGED <<_screen_buffer, terminal, _colour, _attr, _bg, _x, _y>>)]_vars

\* The cell print_at(p.text, p.x, p.y, ...) stores at column col: index i of
\* the text, counted from 1, lands on column p.x + i - 1.
CellOf(p, col) ==
    <<p.text[col - p.x + 1], p.style[1], p.style[2], p.style[3]>>

\* Column col is under a character of the text of call p.
Covers(p, col) == col - p.x + 1 >= 1 /\ col - p.x + 1 <= Len(p.text)

\* C13: a print_at with transparent=True leaves the pending cell under
\* every space of its text as it was and stores every other character of
\* the text, with the call's colours, in the cell under it.
C13_TransparentSpaces ==
    [][(CallStep("print_at") /\ last_call'.transparent /\ last_call'.y >= 0
            /\ last_call'.y < BufferHeight)
       => \A col \in 0..(Width - 1) :
              LET p == last_call'
              IN  Covers(p, col) =>
                      IF p.text[col - p.x + 1] = " "
                      THEN _double_buffer'[p.y][col] = _double_buffer[p.y][col]
                      ELSE _double_buffer'[p.y][col] = CellOf(p, col)]_vars

\* A transparent "Y bw7" at column 0 went over the row "bw7": the "w" under
\* its space is still there in its old colours, between the new "Y" and "b".
C13_Witness ==
    /\ last_call.op = "print_at"
    /\ last_call.transparent
    /\ last_call.x = 0
    /\ last_call.y = 0
    /\ _double_buffer[0][0] = <<"Y", COLOUR_GREEN, A_BOLD, COLOUR_BLUE>>
    /\ _double_buffer[0][1] = <<"w", COLOUR_WHITE, 0, 0>>
    /\ _double_buffer[0][2] = <<"b", COLOUR_GREEN, A_BOLD, COLOUR_BLUE>>

\* C14: print_at(text, x, y) with x < 0 completes, stores character -x + c
\* of the text (counted from 0) in column c of row y for every column the
\* rest of the text reaches, and changes no other cell; nothing at all
\* when -x >= len(text).
C14_LeftClipping ==
    [][(CallStep("print_at") /\ last_call'.x < 0)
       => LET p == last_call'
          IN  /\ raised' = "none"
              /\ _double_buffer' =
                     [r \in 0..(BufferHeight - 1) |-> [col \in 0..(Width - 1) |->
                         IF /\ r = p.y
                            /\ Covers(p, col)
                            /\ ~(p.transparent /\ p.text[col - p.x + 1] = " ")
                         THEN CellOf(p, col)
                         ELSE _double_buffer[r][col]]]]_vars

\* print_at("Y bw7", -2, 0) left "bw7" in columns 0..2 of row 0.
C14_Witness ==
    /\ last_call.op = "print_at"
    /\ last_call.x = -2
    /\ last_call.y = 0
    /\ ~last_call.transparent
    /\ \A col \in 0..2 :
           _double_buffer[0][col] = <<(<<"b", "w", "7">>)[col + 1], COLOUR_WHITE, 0, 0>>

\* C15: print_at(text, x, y) with x >= 0 and x + len(text) >= width
\* completes, stores the first width - x characters of the text in columns
\* x..width-1 of row y (spaces printed transparently apart) and changes no
\* other cell.
C15_RightClipping ==
    [][(CallStep("print_at") /\ last_call'.x >= 0
            /\ last_call'.x + Len(last_call'.text) >= Width)
       => LET p == last_call'
          IN  /\ raised' = "none"
              /\ _double_buffer' =
                     [r \in 0..(BufferHeight - 1) |-> [col \in 0..(Width - 1) |->
                         IF /\ r = p.y
                            /\ Covers(p, col)
                            /\ ~(p.transparent /\ p.text[col - p.x + 1] = " ")
                         THEN CellOf(p, col)
                         ELSE _double_buffer[r][col]]]]_vars

\* C16: a print_at call changes the answer of get_from(x, y) for no cell:
\* it stays what the last refresh() or clear() committed.
C16_GetFromCommitted ==
    [][CallStep("print_at")
       => \A y \in 0..(BufferHeight - 1), x \in 0..(Width - 1) :
              get_from(_screen_buffer', x, y) = get_from(_screen_buffer, x, y)]_vars

\* A "B" was committed in white at (1, 0) by a refresh(); a print_at then
\* made the pending cell a green "B", and get_from(1, 0) is still the white
\* one.
C16_Witness ==
    /\ last_call.op = "print_at"
    /\ _double_buffer[0][1] = <<"B", COLOUR_GREEN, A_BOLD, COLOUR_BLUE>>
    /\ get_from(_screen_buffer, 1, 0) = <<66, COLOUR_WHITE, 0, 0>>

\* The backend calls of one kind in a log.
CallsIn(log, op) == Cardinality({i \in 1..Len(log) : log[i].op = op})

\* C17: clear() issues one physical clear and leaves both buffers blank,
\* the start line at 0 and no scroll pending; a refresh() right after a
\* clear() issues no scroll and no character emission.
C17_ClearResets ==
    /\ last_call.op = "clear" =>
           /\ CallsIn(io, "clear") = 1
           /\ _screen_buffer = BlankBuffer
           /\ _double_buffer = BlankBuffer
           /\ _start_line = 0
           /\ _last_start_line = 0
    /\ (last_call.op = "refresh" /\ before_refresh.op = "clear") =>
           /\ CallsIn(io, "scroll") = 0
           /\ CallsIn(io, "write") = 0

\* scroll(); clear(); refresh(): the scroll was pending when clear() ran,
\* and the refresh() has returned.
C17_Witness ==
    /\ last_call.op = "refresh"
    /\ before_refresh.op = "clear"
    /\ last_call.scrolls = 1
    /\ raised = "none"

\* The screen positions (x, r) of the viewport whose pending cell differs
\* from the committed one, in the rows of the viewport the buffer has.
DirtyViewport ==
    {c \in (0..(Width - 1)) \X (0..(Height - 1)) :
        /\ c[2] + _start_line < BufferHeight
        /\ _screen_buffer[c[2] + _start_line][c[1]]
               # _double_buffer[c[2] + _start_line][c[1]]}

\* C18: a refresh() issues as many emissions, each of one character, as
\* there are viewport cells whose pending value differs from the committed
\* one when it starts, and a refresh() right after a refresh() issues no
\* backend call at all.
C18_DiffRefresh ==
    [][CallStep("refresh")
       => (/\ CallsIn(io', "write") = Cardinality(DirtyViewport)
           /\ \A i \in 1..Len(io') : io'[i].op = "write" => Len(io'[i].text) = 1
           /\ last_call.op = "refresh" => io' = <<>>)]_vars

\* A refresh() has returned after one emission, with a dirty cell left
\* outside the viewport.
C18_Witness ==
    /\ last_call.op = "refresh"
    /\ raised = "none"
    /\ CallsIn(io, "write") = 1
    /\ \E x \in 0..(Width - 1) :
           _screen_buffer[BufferHeight - 1][x] # _double_buffer[BufferHeight - 1][x]

\* The screen positions of DirtyViewport in the order refresh() meets
\* them, from the k-th cell of the viewport on.
RECURSIVE DirtyFrom(_)
DirtyFrom(k) ==
    IF k >= Height * Width \/ (k \div Width) + _start_line >= BufferHeight THEN <<>>
    ELSE IF <<k % Width, k \div Width>> \in DirtyViewport
         THEN <<(<<k % Width, k \div Width>>)>> \o DirtyFrom(k + 1)
         ELSE DirtyFrom(k + 1)

\* The index in a log of its k-th emission (0 for k = 0).
WriteIndex(log, k) ==
    IF k = 0 THEN 0
    ELSE CHOOSE i \in 1..Len(log) :
             /\ log[i].op = "write"
             /\ Cardinality({j \in 1..i : log[j].op = "write"}) = k

\* The kinds of the calls a log holds between its (k-1)-th and its k-th
\* emission.
OpsBefore(log, k) ==
    {log[i].op : i \in (WriteIndex(log, k - 1) + 1)..(WriteIndex(log, k) - 1)}

\* The calls and escape sequences that change the device's colours.
ColourOps == {"state", "normal", "attr", "fg", "bg"}

\* The colours of the pending cell at screen position c, as a cached triple.
PendingStyle(c) ==
    LET cell == _double_buffer[c[2] + _start_line][c[1]]
    IN  <<Some(cell[2]), Some(cell[3]), Some(cell[4])>>

\* C19: in a refresh(), the colour change for a cell whose (fg, attr, bg)
\* is that of the previous colour change (the previous changed cell's, or
\* for the first one the cached triple) puts out nothing.
C19_SameColoursNoOp ==
    [][CallStep("refresh")
       => LET dirty == DirtyFrom(0)
          IN  \A k \in 1..Len(dirty) :
                  LET prev == IF k = 1 THEN <<_colour, _attr, _bg>>
                              ELSE PendingStyle(dirty[k - 1])
                  IN  PendingStyle(dirty[k]) = prev
                          => OpsBefore(io', k) \cap ColourOps = {}]_vars

\* A refresh() has emitted two green cells next to each other.
C19_Witness ==
    /\ last_call.op = "refresh"
    /\ CallsIn(io, "write") = 2
    /\ _screen_buffer[0][1] = <<"B", COLOUR_GREEN, A_BOLD, COLOUR_BLUE>>
    /\ _screen_buffer[0][2] = <<"B", COLOUR_GREEN, A_BOLD, COLOUR_BLUE>>
    /\ OpsBefore(io, 2) \cap ColourOps = {}

\* C20: in a refresh(), an emission is preceded by a cursor-move exactly
\* when its position is not the one the previous emission ended at, and
\* after the refresh() the backend remembers the position its last
\* emission ended at, (x + 1, y).
C20_MoveOnlyWhenNeeded ==
    [][CallStep("refresh")
       => LET dirty == DirtyFrom(0)
          IN  /\ \A k \in 2..Len(dirty) :
                     ("move" \in OpsBefore(io', k))
                         <=> (dirty[k] # <<dirty[k - 1][1] + 1, dirty[k - 1][2]>>)
              /\ dirty # <<>> =>
                     /\ _x' = Some(dirty[Len(dirty)][1] + 1)
                     /\ _y' = Some(dirty[Len(dirty)][2])]_vars

\* C21 as stated: once a quit key has been polled, play() goes through
\* the scene's handler and returns, whatever the handler does with it.
C21_QuitPolledReturns ==
    quit_polled => ppc \in {"process", "returned"}

\* C21: a quit key that the scene's process_event hands back makes play()
\* return there and then, and play() returns for nothing else; after the
\* return nothing is updated, refreshed, cleared, reset or polled.
C21_QuitHandedBackReturns ==
    /\ (last_step = "process_event" /\ IsKey(event, QuitKeys)) => ppc = "returned"
    /\ ppc = "returned" => (last_step = "process_event" /\ IsKey(event, QuitKeys))

C21_Witness ==
    ppc = "returned" /\ ticks >= 2 /\ scene_ix = 2

\* What C22 says of a state: with the skip flag up the scene is on its way
\* out, and play() raises from there only for a resize it was asked to stop on.
SkipState ==
    /\ (last_step = "process_event" /\ IsKey(event, SkipKeys)) => skipped
    /\ skipped => ppc \in {"resize", "test", "after", "enter", "raised"}
    /\ (skipped /\ ppc = "raised") => (re_sized /\ stop_on_resize)

\* C22 as stated: once a skip key has been polled the scene gets no tick
\* any more and playback goes on.
C22_SkipPolledEndsScene ==
    skip_polled => ppc \notin {"effects", "raised"}

\* C22: a space or enter key that the scene's process_event hands back ends
\* the tick's polling; the scene gets no further tick, and playback enters
\* the next scene in order unless has_resized() answers true in that tick
\* and the caller asked to stop on a resize.
C22_SkipHandedBackEndsScene ==
    [][/\ SkipState
       /\ SkipState'
       /\ (skipped /\ ppc = "after" /\ ppc' # ppc /\ ~(re_sized /\ stop_on_resize))
            => (ppc' = "enter" /\ scene_ix' = NextScene(scene_ix))]_vars

C22_Witness ==
    skipped /\ ppc = "enter" /\ scene_ix = 2 /\ tick_frame = 1

\* C23: when has_resized() has answered true and the caller asked to stop
\* on a resize, play() goes from the resize check through the loop test to
\* the raise, updating, refreshing, clearing and resetting nothing on the
\* way, and it raises ResizeScreenError for nothing else.
C23_StrictResizeRaises ==
    /\ (re_sized /\ stop_on_resize) => ppc \in {"test", "after", "raised"}
    /\ ppc = "raised" => (re_sized /\ stop_on_resize /\ last_step = "has_resized")

C23_Witness ==
    ppc = "raised" /\ ticks >= 2 /\ ~skipped

\* C24: when the caller did not ask to stop on a resize, a scene that no
\* skip key ended leaves its tick loop only with its duration elapsed.
C24_ResizeIgnored ==
    (~stop_on_resize /\ ppc = "after" /\ ~skipped) =>
        (scenes[scene_ix].duration >= 0 /\ tick_frame >= scenes[scene_ix].duration)

\* What C25 says of a state of a scene's run: the ticks so far had the
\* frame numbers 1, 2, ... in order, each updated its effects with its own
\* frame number and was refreshed once; a scene left with no skip key and
\* no resize has a duration d >= 0 and has had exactly d ticks.
DurationState ==
    /\ ppc \notin {"start", "enter"} =>
         /\ run.frames = [i \in 1..tick_frame |-> i]
         /\ run.refreshes = IF ppc = "effects" THEN tick_frame - 1 ELSE tick_frame
         /\ ppc \in {"effects", "poll", "process", "resize"} =>
                \A i \in 1..Len(updated) : updated[i][2] = tick_frame
    /\ (ppc = "after" /\ ~skipped /\ ~re_sized) =>
         /\ scenes[scene_ix].duration >= 0
         /\ tick_frame = scenes[scene_ix].duration

C26_EveryEffectUpdated ==
    ppc \in {"poll", "process", "resize"} =>
        [i \in 1..Len(updated) |-> updated[i][1]] = tick_effects

\* C27: when the event phase of a tick is over, every input record that was
\* queued when the polling started has been consumed.
C27_QueueDrained ==
    ppc = "resize" => queued = 0

\* The effect is in a scene.
InScene(e) ==
    \E s \in 1..Len(effects) : \E i \in 1..Len(effects[s]) : effects[s][i] = e

\* C28: an effect whose delete count is n >= 1 when its scene starts is in
\* the scene while it has had fewer than n updates, its count down by one
\* for each, and it is out of the scene with exactly n updates; an effect
\* with no delete count stays in its scene.
C28_Countdown ==
    \A e \in EffectIds :
        IF run.start[e] = None
        THEN InScene(e) /\ delete_count[e] = None
        ELSE LET n == run.start[e][1]
             IN  IF InScene(e)
                 THEN run.updates[e] < n /\ delete_count[e] = Some(n - run.updates[e])
                 ELSE run.updates[e] = n

C28_Witness ==
    \E e \in EffectIds :
        run.start[e] = Some(2) /\ ~InScene(e) /\ run.updates[e] = 2 /\ ppc = "poll"

\* C29: a refresh() that a resize signal interrupts, at the flush or at an
\* emission, does not end in an IOError for its caller.
C29_InterruptionBenign ==
    raised # "IOError"

\* C30 as stated: the palette has 24 values when the colour depth is below
\* 256 and 768 values otherwise.
C30_PaletteLength24Or768 ==
    palette_read # None =>
        Len(palette_read[1]) = IF colours < 256 THEN 24 ELSE 768

\* C30: the palette is a flat sequence of 256 RGB triples, 768 values from
\* 0 to 255, at every colour depth; below a depth of 256 the first eight
\* triples are the ANSI colours and the other 248 triples are zeros.
C30_PaletteLength768 ==
    palette_read # None =>
        LET p == palette_read[1]
        IN  /\ Len(p) = 3 * 256
            /\ \A i \in 1..Len(p) : p[i] \in 0..255
            /\ colours < 256 =>
                 /\ SubSeq(p, 1, 24) = << 0, 0, 0,  128, 0, 0,  0, 128, 0,  128, 128, 0,
                                          0, 0, 128,  128, 0, 128,  0, 128, 128,  192, 192, 192 >>
                 /\ \A i \in 25..Len(p) : p[i] = 0

C30_Witness ==
    palette_read # None /\ colours = 8 /\ Len(palette_read[1]) = 768

\* The integer nearest to a coordinate given in tenths (none of the
\* coordinates used lies half way between two integers).
Nearest(tenths) == (tenths + 5) \div 10

\* C31: move(x, y) leaves the drawing cursor at (round(x) * 2, round(y) * 2),
\* and draw(x, y) leaves it at its target rounded the same way.
C31_MoveRoundsToNearest ==
    last_call.op \in {"move", "draw"} =>
        /\ _x = Some(Nearest(last_call.x) * 2)
        /\ _y = Some(Nearest(last_call.y) * 2)

\* The value of component k (1 foreground, 2 attribute, 3 background) that
\* is running at character i of a paint call: that of the last entry up to
\* i in which the component is present, the call's own where there is none.
RunningAt(call, i, k) ==
    LET map == call.colour_map[1]
        given == {j \in 1..i : Len(map[j]) >= k /\ map[j][k] # None}
    IN  IF given = {} THEN call.style[k]
        ELSE map[CHOOSE j \in given : \A h \in given : h <= j][k][1]

\* C32: paint() with a colour map that has an entry for every character
\* leaves each character that lands in the buffer (a space painted
\* transparently apart) in its pending cell with the foreground, attribute
\* and background running at that character.
C32_StickyOverrides ==
    (/\ last_call.op = "paint"
     /\ last_call.colour_map # None
     /\ Len(last_call.colour_map[1]) >= Len(last_call.text)
     /\ last_call.y \in 0..(BufferHeight - 1)) =>
        /\ raised = "none"
        /\ \A i \in 1..Len(last_call.text) :
             LET col == last_call.x + i - 1
             IN  (/\ col \in 0..(Width - 1)
                  /\ ~(last_call.transparent /\ last_call.text[i] = " "))
                 => _double_buffer[last_call.y][col]
                      = <<last_call.text[i], RunningAt(last_call, i, 1),
                          RunningAt(last_call, i, 2), RunningAt(last_call, i, 3)>>

\* paint("YB7", 0, 0, colour_map=[(green, None, None), (), ()]) has put all
\* three characters down in green.
C32_Witness ==
    /\ last_call.op = "paint"
    /\ last_call.colour_map = Some(<< <<Some(COLOUR_GREEN), None, None>>, <<>>, <<>> >>)
    /\ last_call.x = 0
    /\ \A col \in 0..2 : _double_buffer[last_call.y][col][2] = COLOUR_GREEN
    /\ _double_buffer[last_call.y][1][1] = "B"

\* C33: wherever scroll() has taken the start line, is_visible(x, y) is
\* true exactly for the columns 0..width and the rows start_line up to
\* start_line + height - 1; it is false for the row above the start line
\* and for the row start_line + height.
C33_IsVisible ==
    \A x \in (-1)..(Width + 1) :
        /\ \A y \in (_start_line - 1)..(_start_line + Height) :
             is_visible(x, y)
                 <=> (x \in 0..Width /\ y \in _start_line..(_start_line + Height - 1))
        /\ ~is_visible(x, _start_line - 1)
        /\ ~is_visible(x, _start_line + Height)

C33_Witness ==
    /\ last_call.op = "scroll"
    /\ _start_line = 2
    /\ is_visible(Width, 2)
    /\ is_visible(0, 3)
    /\ ~is_visible(0, 1)

\* C34: after a change of the device state the device renders with the
\* foreground, attribute and background that were asked for, which are the
\* ones the cache holds.
C34_CacheCoherent ==
    last_call.op = "change_colours" =>
        /\ <<_colour, _attr, _bg>>
             = <<Some(last_call.colour), Some(last_call.attr), Some(last_call.bg)>>
        /\ rendition = [fg |-> last_call.colour, attr |-> last_call.attr, bg |-> last_call.bg]

\* C35: the stepping loop of draw() reaches its end point: the coordinate
\* it steps along never gets past the end point's, from where every
\* further pass takes it further away and the loop condition cannot fail.
C35_DrawReachesEndPoint ==
    pc = "draw" =>
        IF frame.dx > frame.dy
        THEN (frame.x1 - frame.x) * frame.sx >= 0
        ELSE (frame.y1 - frame.y) * frame.sy >= 0

\* C36: play() returns only in a tick in which a quit key was polled and
\* handed back, and raises only for a resize it was asked to stop on; the
\* scene after the last one is the first one, and a scene entered, for
\* the first time or again, is cleared if its clear flag is set, reset,
\* and started from frame 0.
C36_PlaysUntilQuit ==
    [][/\ ppc' = "returned" => (quit_polled' /\ IsKey(event', QuitKeys))
       /\ ppc' = "raised" => (re_sized' /\ stop_on_resize)
       /\ (ppc = "after" /\ ppc' # ppc /\ ~(re_sized /\ stop_on_resize)) =>
            /\ ppc' = "enter"
            /\ scene_ix' = IF scene_ix = Len(scenes) THEN 1 ELSE scene_ix + 1
       /\ (ppc = "enter" /\ ppc' # ppc) =>
            /\ ppc' = "test"
            /\ tick_frame' = 0
            /\ last_step' = IF scenes[scene_ix].clear THEN "clear+reset" ELSE "reset"]_vars

\* The first of two scenes has been entered again after ticks of the second.
C36_Witness ==
    /\ Len(scenes) = 2
    /\ scene_ix = 1
    /\ ppc = "test"
    /\ last_step \in {"reset", "clear+reset"}
    /\ tick_frame = 0
    /\ ticks >= 2

\* C37: inside one refresh() every physical scroll precedes every
\* emission; the k-th emission is the character of the k-th changed cell
\* and comes after the colour change for that cell and before any for the
\* next one; a changed cell is committed exactly when its emission was
\* issued, so the cell whose emission raised stays dirty, and the next
\* refresh(), when it completes, emits it again and commits it.
C37_RefreshOrdering ==
    [][CallStep("refresh")
       => LET dirty == DirtyFrom(0)
              n == CallsIn(io', "write")
          IN  /\ \A i, j \in 1..Len(io') :
                     (io'[i].op = "scroll" /\ io'[j].op = "write") => i < j
              /\ n <= Len(dirty)
              /\ \A k \in 1..n :
                     LET c == dirty[k]
                         prev == IF k = 1 THEN <<_colour, _attr, _bg>>
                                 ELSE PendingStyle(dirty[k - 1])
                     IN  /\ io'[WriteIndex(io', k)].text
                                = <<_double_buffer[c[2] + _start_line][c[1]][1]>>
                         /\ PendingStyle(c) # prev
                                => OpsBefore(io', k) \cap ColourOps # {}
              /\ (raised' = "none" /\ n > 0) => io'[Len(io')].op = "write"
              /\ \A k \in 1..Len(dirty) :
                     LET c == dirty[k]
                         row == c[2] + _start_line
                     IN  IF k <= n
                         THEN _screen_buffer'[row][c[1]] = _double_buffer[row][c[1]]
                         ELSE _screen_buffer'[row][c[1]] = _screen_buffer[row][c[1]]
              /\ raised' = "IOError" =>
                     /\ n < Len(dirty)
                     /\ LET c == dirty[n + 1]
                        IN  _screen_buffer'[c[2] + _start_line][c[1]]
                                # _double_buffer'[c[2] + _start_line][c[1]]
              /\ (last_call.op = "refresh" /\ raised = "IOError" /\ raised' = "none")
                     => (n = Len(dirty) /\ n >= 1)]_vars

\* A refresh() whose emission raised has been followed by one that
\* emitted the cell left dirty and committed it.
C37_Witness ==
    /\ last_call.op = "refresh"
    /\ before_refresh.op = "refresh"
    /\ raised = "none"
    /\ CallsIn(io, "write") >= 1
    /\ DirtyViewport = {}

\* The draw() in progress, or just called, plots an explicit character that
\* is not a space, from a cursor that lies on a cell (both sub-cell
\* coordinates even).
PlotsFromCell(call, f) ==
    /\ f.char # None
    /\ f.char # Some(" ")
    /\ call.from_x[1] % 2 = 0
    /\ call.from_y[1] % 2 = 0

\* The passes the loop of draw() has made: the cells its major-axis
\* coordinate has moved from the cursor.
PassesMade(call, f) ==
    IF f.dx > f.dy THEN Abs(f.x - call.from_x[1]) \div 2
    ELSE Abs(f.y - call.from_y[1]) \div 2

\* C38: draw() with an explicit non-space char from the cell (x0, y0) to
\* (x1, y1) makes one cell write per pass, none when the target is the
\* cursor, the first at the cursor's cell, and returns after exactly
\* max(|x1 - x0|, |y1 - y0|) of them; from one write to the next the
\* major-axis cell coordinate advances by one in the line's direction and
\* the minor-axis one changes by at most one; x is the major axis only
\* when |x1 - x0| > |y1 - y0|.
C38_LineWrites ==
    [][/\ (pc = "idle" /\ pc' = "draw" /\ PlotsFromCell(last_call', frame')) =>
            /\ frame'.x = last_call'.from_x[1]
            /\ frame'.y = last_call'.from_y[1]
            /\ PassesMade(last_call', frame') = 0
            /\ (frame'.x = frame'.x1 /\ frame'.y = frame'.y1) => ~Looping(frame')
       /\ (pc = "draw" /\ pc' = "draw" /\ frame' # frame
              /\ PlotsFromCell(last_call, frame)) =>
            LET cx == EvenFloor(frame.x) \div 2
                cy == EvenFloor(frame.y) \div 2
                nx == EvenFloor(frame'.x) \div 2
                ny == EvenFloor(frame'.y) \div 2
                x_major == Abs(frame.x1 - last_call.from_x[1])
                               > Abs(frame.y1 - last_call.from_y[1])
            IN  /\ \A row \in 0..(BufferHeight - 1), col \in 0..(Width - 1) :
                       _double_buffer'[row][col] =
                           IF row = cy /\ col = cx
                           THEN <<frame.char[1], frame.colour, 0, frame.bg>>
                           ELSE _double_buffer[row][col]
                /\ PassesMade(last_call, frame') = PassesMade(last_call, frame) + 1
                /\ IF x_major
                   THEN /\ nx = cx + (IF frame.x1 > frame.x THEN 1 ELSE -1)
                        /\ Abs(ny - cy) <= 1
                   ELSE /\ ny = cy + (IF frame.y1 > frame.y THEN 1 ELSE -1)
                        /\ Abs(nx - cx) <= 1
       /\ (pc = "draw" /\ pc' = "idle" /\ PlotsFromCell(last_call, frame)) =>
            LET across == Abs(frame.x1 - last_call.from_x[1]) \div 2
                down == Abs(frame.y1 - last_call.from_y[1]) \div 2
            IN  PassesMade(last_call, frame) = IF across > down THEN across ELSE down]_vars

\* A line of "#" has been drawn two cells across and one down, and draw()
\* is about to return.
C38_Witness ==
    /\ pc = "draw"
    /\ ~Looping(frame)
    /\ PlotsFromCell(last_call, frame)
    /\ frame.dx = 4
    /\ frame.dy = 2
    /\ PassesMade(last_call, frame) = 2
    /\ \E row \in 0..(BufferHeight - 2), col \in 0..(Width - 2) :
           /\ _double_buffer[row][col][1] = "#"
           /\ _double_buffer[row + 1][col + 1][1] = "#"

\* C39: putch(text, x, y, colour, attr, bg, transparent) ends as print_at
\* with the same arguments ends and leaves the pending buffer as print_at
\* leaves it, and getch(x, y) is the value of get_from(x, y).
C39_PutchAsPrintAt ==
    /\ last_call.op = "putch" =>
           LET r == print_at(last_call.before, last_call.text, last_call.x, last_call.y,
                             last_call.style, last_call.transparent)
           IN  /\ raised = r.raised
               /\ _double_buffer = r.buf
    /\ \A x \in 0..(Width - 1), y \in 0..(BufferHeight - 1) :
           getch(_screen_buffer, x, y) = get_from(_screen_buffer, x, y)

====
